---- MODULE Spec2Model ----
(***************************************************************************)
(* File Content Analyzer (package fca): the traversal generator            *)
(* iter_files and the three analysis drivers that consume it (String       *)
(* Search, File Statistics, Name Search).                                  *)
(*                                                                         *)
(* Text is modelled at character level: a string is a sequence of          *)
(* one-character strings, a path is such a string with "/" separators.     *)
(***************************************************************************)
EXTENDS Integers, Sequences, FiniteSets, TLC

(***************************************************************************)
(* Bounds of the model.                                                    *)
(***************************************************************************)
\* at most this many user files exist in the tree besides the entry file
MaxFiles == 2

(***************************************************************************)
(* Strings.                                                                *)
(***************************************************************************)
UpperChars == <<"A","B","C","D","E","F","G","H","I","J","K","L","M",
                "N","O","P","Q","R","S","T","U","V","W","X","Y","Z">>

LowerChars == <<"a","b","c","d","e","f","g","h","i","j","k","l","m",
                "n","o","p","q","r","s","t","u","v","w","x","y","z">>

\* the letter U+017F (long s): lower case, its upper case is "S"
LongS == "u017F"

\* str.lower() on one character
LowerChar(c) ==
    IF \E i \in 1..26 : UpperChars[i] = c
    THEN LowerChars[CHOOSE i \in 1..26 : UpperChars[i] = c]
    ELSE c

\* str.lower()
Lower(s) == [i \in 1..Len(s) |-> LowerChar(s[i])]

\* s[i:] with a 1-based first index
Drop(s, i) == SubSeq(s, i, Len(s))

\* str.lstrip(chars) for a one-character set
RECURSIVE Lstrip(_, _)
Lstrip(s, c) ==
    IF s # <<>> /\ Head(s) = c THEN Lstrip(Tail(s), c) ELSE s

\* str.rfind(c), 1-based, 0 when absent
Rfind(s, c) ==
    IF \E i \in 1..Len(s) : s[i] = c
    THEN CHOOSE i \in 1..Len(s) : s[i] = c /\ \A j \in (i+1)..Len(s) : s[j] # c
    ELSE 0

\* s.startswith(pre)
StartsWith(s, pre) ==
    Len(pre) <= Len(s) /\ SubSeq(s, 1, Len(pre)) = pre

\* the elements of a sequence
Range(s) == {s[i] : i \in 1..Len(s)}

(***************************************************************************)
(* os.path (posixpath).                                                    *)
(***************************************************************************)
SEP == "/"

\* os.path.join(a, b)
Join(a, b) ==
    IF b # <<>> /\ Head(b) = SEP THEN b
    ELSE IF a = <<>> \/ a[Len(a)] = SEP THEN a \o b
    ELSE a \o <<SEP>> \o b

\* os.path.basename(p)
Basename(p) == Drop(p, Rfind(p, SEP) + 1)

\* os.path.splitext(p)[1]: the suffix from the last dot of the last
\* component, unless only dots precede it in that component
SplitextExt(p) ==
    LET sepIndex == Rfind(p, SEP)
        dotIndex == Rfind(p, ".")
    IN  IF dotIndex > sepIndex
           /\ \E i \in (sepIndex+1)..(dotIndex-1) : p[i] # "."
        THEN Drop(p, dotIndex)
        ELSE <<>>

\* str.split("/") of a path
RECURSIVE SplitSep(_)
SplitSep(p) ==
    IF \A i \in 1..Len(p) : p[i] # SEP THEN <<p>>
    ELSE LET k == CHOOSE i \in 1..Len(p) :
                      p[i] = SEP /\ \A j \in 1..(i-1) : p[j] # SEP
         IN  <<SubSeq(p, 1, k-1)>> \o SplitSep(Drop(p, k+1))

\* the component stack os.path.normpath builds
RECURSIVE NormComps(_, _, _)
NormComps(comps, acc, isabs) ==
    IF comps = <<>> THEN acc
    ELSE LET c == Head(comps)
             rest == Tail(comps)
         IN  IF c = <<>> \/ c = <<".">> THEN NormComps(rest, acc, isabs)
             ELSE IF c # <<".", ".">>
                     \/ (~isabs /\ acc = <<>>)
                     \/ (acc # <<>> /\ acc[Len(acc)] = <<".", ".">>)
                  THEN NormComps(rest, Append(acc, c), isabs)
             ELSE IF acc # <<>>
                  THEN NormComps(rest, SubSeq(acc, 1, Len(acc)-1), isabs)
             ELSE NormComps(rest, acc, isabs)

\* "/".join(comps)
RECURSIVE JoinSep(_)
JoinSep(comps) ==
    IF comps = <<>> THEN <<>>
    ELSE IF Len(comps) = 1 THEN comps[1]
    ELSE comps[1] \o <<SEP>> \o JoinSep(Tail(comps))

\* path or "."
OrDot(path) == IF path = <<>> THEN <<".">> ELSE path

\* os.path.normpath(p)
Normpath(p) ==
    IF p = <<>> THEN <<".">>
    ELSE IF Head(p) = SEP
         THEN <<SEP>> \o JoinSep(NormComps(SplitSep(p), <<>>, TRUE))
         ELSE OrDot(JoinSep(NormComps(SplitSep(p), <<>>, FALSE)))

\* the working directory of the process
Cwd == <<"/","w">>

\* os.path.abspath(p)
Abspath(p) ==
    Normpath(IF p # <<>> /\ Head(p) = SEP THEN p ELSE Join(Cwd, p))

(***************************************************************************)
(* The file system the program runs on.                                    *)
(*   /w            working directory of the process                        *)
(*   /w/p          directory of the program; /w/p/m.py is the entry file   *)
(*   /w/p/s, /w/p/s/t, /w/p/v   subdirectories                             *)
(*   /w/k          symbolic link to /w/p                                   *)
(***************************************************************************)
ProjDir == <<"/","w","/","p">>
LinkDir == <<"/","w","/","k">>
DirS == ProjDir \o <<"/","s">>
DirT == DirS \o <<"/","t">>
DirV == ProjDir \o <<"/","v">>

\* the directories that exist, by real path
RealDirs == {Cwd, ProjDir, DirS, DirT, DirV}

\* the path main() computes for the entry file: absolute and normalised
EntryFile == ProjDir \o <<"/","m",".","p","y">>

FileA == ProjDir \o <<"/","a",".","p","y">>
FileN == ProjDir \o <<"/","n">>
FileC == DirS \o <<"/","c",".","t","x","t">>
FileD == DirT \o <<"/","d",".","p","y">>
FileB == DirV \o <<"/","b",".","J","S">>

\* the user files that may exist, by real path
CandFiles == {FileA, FileN, FileC, FileD, FileB}

\* a byte that is not valid UTF-8
BadByte == "xFF"

\* what each file holds on disk
DiskContent(f) ==
    CASE f = EntryFile -> <<"a","b","\n">>
      [] f = FileA -> <<"a","b"," ","A","b","\n">>
      [] f = FileB -> <<"b","\r","\n","b">>
      [] f = FileN -> <<>>
      [] f = FileC -> <<"a","a","a"," ","B","\n","\n">>
      [] f = FileD -> <<"A","B",BadByte,"\n","a","b","a","b">>
      [] OTHER -> <<>>

\* dirname of a real path
Parent(p) == SubSeq(p, 1, Rfind(p, SEP) - 1)

\* the location an absolute path names: the kernel follows the link /w/k
FollowLink(a) ==
    IF a = LinkDir \/ StartsWith(a, LinkDir \o <<SEP>>)
    THEN ProjDir \o Drop(a, Len(LinkDir) + 1)
    ELSE a

\* the location a path string names
Resolve(p) == FollowLink(Abspath(p))

(***************************************************************************)
(* Inputs of a run.                                                        *)
(***************************************************************************)
\* ways the user may name the directory to analyse
RootRel == <<"p">>
RootAbs == <<"/","w","/","p","/",".",".","/",".","/","p">>
RootLink == <<"k">>
RootMissing == <<"x">>
RootNotDir == <<"p","/","m",".","p","y">>

Roots == {RootRel, RootAbs, RootLink, RootMissing, RootNotDir}

ExtPy == <<"p","y">>
ExtJs == <<"j","s">>
ExtTxt == <<"t","x","t">>

\* (included_exts, excluded_exts) pairs, as normalize_ext_list leaves them
ExtPolicies ==
    { <<{}, {}>>, <<{}, {ExtJs}>>, <<{ExtPy, ExtTxt}, {ExtTxt}>> }

DirPolicies == { {}, {<<"s">>, <<"p">>} }

\* search strings as load_search_strings returns them
StringLists ==
    { << <<"A","b">>, <<"b">>, <<"z">> >> }

\* name patterns as load_name_patterns returns them
PatternLists ==
    { << <<"*",".","p","y">>, <<"[","a","-","c","]","?","*">>,
         <<"*",".","T","X","T">>, <<"z","*">> >> }

(***************************************************************************)
(* State.                                                                  *)
(***************************************************************************)
VARIABLES
    files,            \* user files that exist (real paths)
    unreadable,       \* files and directories the process may not read
    directory,        \* the directory argument of the run
    excluded_dirs,    \* FilterPolicy: directory names to prune
    excluded_exts,    \* FilterPolicy: extensions to reject
    included_exts,    \* FilterPolicy: include-only extensions
    mode,             \* "none", "search", "stats" or "names"
    case_sensitive,   \* the case flag of the run
    strings,          \* search strings of a String Search run
    patterns,         \* patterns of a Name Search run
    pc,               \* "idle", "iter", "done" or "raised"; "pure" when one
                      \* function is studied on its own
    stack,            \* os.walk: directories entered and not yet left
    yielded,          \* the paths iter_files has yielded, in order
    results,          \* search_mode.run: path -> (string -> count)
    per_file,         \* stats_mode.run: path -> lines/words/chars
    per_ext,          \* stats_mode.run: extension -> totals
    hits_by_pattern,  \* name_search_mode.run: pattern -> paths
    out,              \* what run returned: None or the path of its report
    now,              \* the clock, in seconds
    reports,          \* the report files written so far: path -> text
    run_no,           \* how many times the program was started
    history,          \* the inputs and result structure of every finished run
    op,               \* the function applied to arg, "none" before
    arg,              \* the input of a function studied on its own
    ret,              \* what the function returned for arg
    args,             \* the command line of the process, as parse_args gives it
    cfg,              \* main: the configuration dict
    config_json,      \* the file config.json next to the entry file
    config_io         \* the calls of load_config and save_config so far

vars == <<files, unreadable, directory, excluded_dirs, excluded_exts,
          included_exts, mode, case_sensitive, strings, patterns, pc, stack,
          yielded, results, per_file, per_ext, hits_by_pattern, out,
          now, reports, run_no, history, op, arg, ret,
          args, cfg, config_json, config_io>>

\* the command line and the configuration, in memory and on disk
conf == <<args, cfg, config_json, config_io>>

env == <<files, unreadable, directory, excluded_dirs, excluded_exts,
         included_exts, op, arg, ret, conf>>

\* what the driver loops leave alone: the clock, the reports on disk, the
\* count of program starts and the record of finished runs
sink == <<now, reports, run_no, history>>

\* the files there before any run: the user files and the entry file
Present == files \cup {EntryFile}

\* every file that exists, reports of earlier runs included
OnDisk == Present \cup DOMAIN reports

\* Python's None, as the return value of a run that wrote no report
None == <<>>

\* reporting.RESULTS_DIRNAME
RESULTS_DIRNAME ==
    <<"a","n","a","l","y","s","i","s","-","r","e","s","u","l","t","s">>

\* out_dir of make_output_file: the results directory next to the entry file
OutDir == Join(Parent(Abspath(EntryFile)), RESULTS_DIRNAME)

\* the directories that exist: os.makedirs creates the results directory
\* when the first report is written
AllDirs == RealDirs \cup (IF DOMAIN reports = {} THEN {} ELSE {OutDir})

\* the bytes of a file: a report holds the text written to it
Content(f) == IF f \in DOMAIN reports THEN reports[f] ELSE DiskContent(f)

\* the empty dict
EmptyDict == [x \in {} |-> 0]

\* a command line without any option: every flag False, every value None
NoArgs ==
    [no_config |-> FALSE, edit_config |-> FALSE, include |-> None,
     exclude |-> None, dir |-> None]

\* config.json: absent, not JSON, JSON that is not an object, or an object
NoConfigFile == [kind |-> "absent", value |-> EmptyDict]

(***************************************************************************)
(* os.walk(start_dir), top down, onerror=None, followlinks=False.          *)
(***************************************************************************)
\* os.scandir(p): an OSError, or the names in the directory split as
\* os.walk splits them into dirs and nondirs
ScandirReal(real) ==
    IF real \notin AllDirs \/ real \in unreadable
    THEN [err |-> TRUE, dirs |-> {}, nondirs |-> {}]
    ELSE [err |-> FALSE,
          dirs |-> {Basename(d) : d \in {x \in AllDirs : x # Cwd /\ Parent(x) = real}},
          nondirs |-> {Basename(f) : f \in {x \in OnDisk : Parent(x) = real}}]

\* os.scandir(p) on a path string
Scandir(p) == ScandirReal(Resolve(p))

\* os.path.islink(p)
Islink(p) == Abspath(p) = LinkDir

\* variant: the directory list is yielded as scandir gave it
PruneDirsNone(dirs, excl) == dirs

\* dirs[:] = [d for d in dirs if d not in excluded_dirs]
PruneDirs(dirs, excl) == {d \in dirs : d \notin excl}

\* variant: the excluded names are struck off the file list as well
FramePruneFiles(top, sc, excl) ==
    [top |-> top, dirs |-> PruneDirs(sc.dirs, excl),
     files |-> PruneDirs(sc.nondirs, excl)]

\* the (root, dirs, files) triple of one directory, after iter_files pruned it
Frame(top, sc, excl) ==
    [top |-> top, dirs |-> PruneDirs(sc.dirs, excl), files |-> sc.nondirs]

\* a walk that never leaves a directory it has finished
UnwindNever(stk) == stk

\* leave the directories that have nothing left to visit
RECURSIVE Unwind(_)
Unwind(stk) ==
    IF stk # <<>> /\ stk[Len(stk)].dirs = {} /\ stk[Len(stk)].files = {}
    THEN Unwind(SubSeq(stk, 1, Len(stk) - 1))
    ELSE stk

\* the stack with the top frame replaced
SetTop(stk, fr) == [stk EXCEPT ![Len(stk)] = fr]

\* the outcome of os.walk for its first directory, given what scandir gave
FirstTriple(start_dir, sc, excl) ==
    IF sc.err THEN [raise |-> FALSE, stack |-> <<>>]
    ELSE [raise |-> FALSE, stack |-> Unwind(<<Frame(start_dir, sc, excl)>>)]

\* variant: the OSError of the first scandir reaches the caller
WalkStartRaises(start_dir, excl) ==
    [raise |-> Scandir(start_dir).err,
     stack |-> FirstTriple(start_dir, Scandir(start_dir), excl).stack]

\* os.walk(start_dir) up to its first triple; a failing scandir ends the
\* walk of that directory silently (onerror is None)
WalkStart(start_dir, excl) == FirstTriple(start_dir, Scandir(start_dir), excl)

\* the stack with subdirectory d struck off the top frame
Visited(stk, d) == SetTop(stk, [stk[Len(stk)] EXCEPT !.dirs = @ \ {d}])

\* the outcome of os.walk for subdirectory new_path, given what scandir gave:
\* links are not followed, a failing scandir skips the subdirectory
NextTriple(rest, new_path, sc, excl) ==
    IF Islink(new_path) \/ sc.err
    THEN [raise |-> FALSE, stack |-> Unwind(rest)]
    ELSE [raise |-> FALSE,
          stack |-> Unwind(Append(rest, Frame(new_path, sc, excl)))]

\* variant: a walk that lists subdirectories without entering them
WalkIntoNoDescend(stk, d, excl) ==
    [raise |-> FALSE, stack |-> Unwind(Visited(stk, d))]

\* os.walk resumed for subdirectory d of the top frame
WalkInto(stk, d, excl) ==
    NextTriple(Visited(stk, d), Join(stk[Len(stk)].top, d),
               Scandir(Join(stk[Len(stk)].top, d)), excl)

(***************************************************************************)
(* fca.traversal.iter_files                                                *)
(***************************************************************************)
\* ext = os.path.splitext(name)[1].lower().lstrip(".")
ExtOf(name) == Lstrip(Lower(SplitextExt(name)), ".")

\* the two `continue` tests of iter_files on an extension
ExtAllowed(ext, incl, excl) ==
    /\ ~(incl # {} /\ ext \notin incl)
    /\ ~(ext \in excl)

\* variant: excluded_exts consulted only when included_exts is empty
FileAllowedElif(name, incl, excl) ==
    IF incl # {} THEN ExtOf(name) \in incl ELSE ExtOf(name) \notin excl

\* lines 23-27 of iter_files: TRUE when the file is yielded
FileAllowed(name, incl, excl) == ExtAllowed(ExtOf(name), incl, excl)

\* the stack once the top frame is done with file `name`
AfterFile(stk, name) ==
    Unwind(SetTop(stk, [stk[Len(stk)] EXCEPT !.files = @ \ {name}]))

(***************************************************************************)
(* Reading a file: open(path, "r", encoding="utf-8", errors="ignore")      *)
(***************************************************************************)
\* errors="ignore": undecodable bytes are dropped
Decode(bytes) == SelectSeq(bytes, LAMBDA b : b # BadByte)

\* newline=None: "\r\n" and "\r" are read as "\n"
UniversalNewlines(s) ==
    LET kept == SelectSeq([i \in 1..Len(s) |-> <<i, s[i]>>],
                          LAMBDA q : ~(q[2] = "\n" /\ q[1] > 1 /\ s[q[1] - 1] = "\r"))
    IN  [i \in 1..Len(kept) |-> IF kept[i][2] = "\r" THEN "\n" ELSE kept[i][2]]

\* f.read() of a file opened in text mode: the bytes decoded, the newlines
\* translated
ReadText(bytes) == UniversalNewlines(Decode(bytes))

\* open + f.read(): an OSError, or the text of the file
OpenReadReal(real) ==
    IF real \notin OnDisk \/ real \in unreadable
    THEN [exc |-> TRUE, text |-> <<>>]
    ELSE [exc |-> FALSE, text |-> ReadText(Content(real))]

\* open + f.read() on a path string
OpenRead(path) == OpenReadReal(Resolve(path))

(***************************************************************************)
(* Text measures.                                                          *)
(***************************************************************************)
\* the positions from i on where needle occurs in hay
FoundFrom(hay, needle, i) ==
    {k \in i..(Len(hay) - Len(needle) + 1) :
        SubSeq(hay, k, k + Len(needle) - 1) = needle}

\* variant: the search resumes one character after the start of each
\* occurrence found
RECURSIVE CountFromOverlapping(_, _, _)
CountFromOverlapping(hay, needle, i) ==
    IF FoundFrom(hay, needle, i) = {} THEN 0
    ELSE 1 + CountFromOverlapping(hay, needle,
                       (CHOOSE k \in FoundFrom(hay, needle, i) :
                           \A j \in FoundFrom(hay, needle, i) : k <= j)
                       + 1)

\* str.count(needle) scanning from position i: the search resumes right
\* after each occurrence found
RECURSIVE CountFrom(_, _, _)
CountFrom(hay, needle, i) ==
    IF FoundFrom(hay, needle, i) = {} THEN 0
    ELSE 1 + CountFrom(hay, needle,
                       (CHOOSE k \in FoundFrom(hay, needle, i) :
                           \A j \in FoundFrom(hay, needle, i) : k <= j)
                       + Len(needle))

\* str.count(needle)
Count(hay, needle) ==
    IF needle = <<>> THEN Len(hay) + 1 ELSE CountFrom(hay, needle, 1)

\* characters str.splitlines() breaks a line at
LineBreaks == {"\n", "\r", "\f"}

\* len(text.splitlines())
RECURSIVE SplitlinesLen(_)
SplitlinesLen(s) ==
    IF s = <<>> THEN 0
    ELSE IF \A i \in 1..Len(s) : s[i] \notin LineBreaks THEN 1
    ELSE LET k == CHOOSE i \in 1..Len(s) :
                      s[i] \in LineBreaks /\ \A j \in 1..(i-1) : s[j] \notin LineBreaks
             nxt == IF s[k] = "\r" /\ k < Len(s) /\ s[k+1] = "\n" THEN k + 2 ELSE k + 1
         IN  1 + SplitlinesLen(Drop(s, nxt))

\* characters str.split() separates words at
Whitespace == {" ", "\t", "\n", "\r", "\f"}

\* len(text.split())
SplitLen(s) ==
    Cardinality({i \in 1..Len(s) :
        s[i] \notin Whitespace /\ (i = 1 \/ s[i-1] \in Whitespace)})

(***************************************************************************)
(* fnmatch.fnmatchcase                                                     *)
(***************************************************************************)
CharTable == <<"\t", "\n", "\f", "\r", " ", "!", "(", ")", "*", "-", ".", "/",
               "0", "1", "2", "3", "4", "5", "6", "7", "8", "9", ":", "=", "?">>
             \o UpperChars \o <<"[", "]", "_">> \o LowerChars

\* ord(c), up to an order-preserving renumbering
Ord(c) == CHOOSE i \in 1..Len(CharTable) : CharTable[i] = c

\* index of the "]" that closes the class opened at pat[1], 0 when unclosed
ClassEnd(pat) ==
    LET n == Len(pat)
        j0 == IF n >= 2 /\ pat[2] = "!" THEN 3 ELSE 2
        j1 == IF j0 <= n /\ pat[j0] = "]" THEN j0 + 1 ELSE j0
        ends == {j \in j1..n : pat[j] = "]"}
    IN  IF ends = {} THEN 0 ELSE CHOOSE j \in ends : \A k \in ends : j <= k

\* does character c belong to the items (single characters and lo-hi ranges)
RECURSIVE InItems(_, _)
InItems(c, items) ==
    IF items = <<>> THEN FALSE
    ELSE IF Len(items) >= 3 /\ items[2] = "-"
         THEN \/ (Ord(items[1]) <= Ord(c) /\ Ord(c) <= Ord(items[3]))
              \/ InItems(c, Drop(items, 4))
         ELSE c = items[1] \/ InItems(c, Tail(items))

\* does character c match the class whose body (between the brackets) is stuff
InClass(c, stuff) ==
    IF stuff = <<>> THEN FALSE
    ELSE IF stuff = <<"!">> THEN TRUE
    ELSE IF Head(stuff) = "!" THEN ~InItems(c, Tail(stuff))
    ELSE InItems(c, stuff)

\* variant: the pattern need only match the beginning of the name
RECURSIVE FnmatchcasePrefix(_, _)
FnmatchcasePrefix(name, pat) ==
    IF pat = <<>> THEN TRUE
    ELSE LET c == Head(pat)
         IN  IF c = "*"
             THEN \E k \in 0..Len(name) : FnmatchcasePrefix(Drop(name, k + 1), Tail(pat))
             ELSE IF name = <<>> THEN FALSE
             ELSE IF c = "?" THEN FnmatchcasePrefix(Tail(name), Tail(pat))
             ELSE IF c = "[" /\ ClassEnd(pat) # 0
                  THEN /\ InClass(Head(name), SubSeq(pat, 2, ClassEnd(pat) - 1))
                       /\ FnmatchcasePrefix(Tail(name), Drop(pat, ClassEnd(pat) + 1))
             ELSE Head(name) = c /\ FnmatchcasePrefix(Tail(name), Tail(pat))

\* fnmatch.fnmatchcase(name, pat): the whole name against the whole pattern
RECURSIVE Fnmatchcase(_, _)
Fnmatchcase(name, pat) ==
    IF pat = <<>> THEN name = <<>>
    ELSE LET c == Head(pat)
         IN  IF c = "*"
             THEN \E k \in 0..Len(name) : Fnmatchcase(Drop(name, k + 1), Tail(pat))
             ELSE IF name = <<>> THEN FALSE
             ELSE IF c = "?" THEN Fnmatchcase(Tail(name), Tail(pat))
             ELSE IF c = "[" /\ ClassEnd(pat) # 0
                  THEN /\ InClass(Head(name), SubSeq(pat, 2, ClassEnd(pat) - 1))
                       /\ Fnmatchcase(Tail(name), Drop(pat, ClassEnd(pat) + 1))
             ELSE Head(name) = c /\ Fnmatchcase(Tail(name), Tail(pat))

\* variant: only the first matching pattern is returned
MatchesFirstPattern(filename, pats, cs) ==
    LET all == IF cs
               THEN SelectSeq(pats, LAMBDA p : Fnmatchcase(filename, p))
               ELSE SelectSeq(pats, LAMBDA p : Fnmatchcase(Lower(filename), Lower(p)))
    IN  IF all = <<>> THEN <<>> ELSE <<Head(all)>>

\* variant: only the file name is lower-cased, the patterns are used as typed
MatchesNameLowered(filename, pats, cs) ==
    IF cs
    THEN SelectSeq(pats, LAMBDA p : Fnmatchcase(filename, p))
    ELSE SelectSeq(pats, LAMBDA p : Fnmatchcase(Lower(filename), p))

\* name_search_mode._matches_any_pattern: the patterns that match, in order
MatchesAnyPattern(filename, pats, cs) ==
    IF cs
    THEN SelectSeq(pats, LAMBDA p : Fnmatchcase(filename, p))
    ELSE SelectSeq(pats, LAMBDA p : Fnmatchcase(Lower(filename), Lower(p)))

(***************************************************************************)
(* The loop bodies of the three drivers.                                   *)
(***************************************************************************)
\* script_path = os.path.abspath(entry_file)
ScriptPath == Abspath(EntryFile)

\* if os.path.abspath(path) == script_path: continue
IsSelf(path) == Abspath(path) = ScriptPath

\* processed = strings if case_sensitive else [s.lower() for s in strings]
Processed(strs, cs) ==
    IF cs THEN strs ELSE [i \in DOMAIN strs |-> Lower(strs[i])]

\* variant: the counts are stored under the processed (lower-cased) term
SearchCountsTermKeys(text, strs, cs) ==
    LET hay == IF cs THEN text ELSE Lower(text)
        proc == Processed(strs, cs)
        hit == {i \in DOMAIN strs : Count(hay, proc[i]) # 0}
    IN  [o \in {proc[i] : i \in hit} |-> Count(hay, o)]

\* the counts dict search_mode.run builds for one text
SearchCounts(text, strs, cs) ==
    LET hay == IF cs THEN text ELSE Lower(text)
        proc == Processed(strs, cs)
        hit == {i \in DOMAIN strs : Count(hay, proc[i]) # 0}
    IN  [o \in {strs[i] : i \in hit} |->
            Count(hay, proc[CHOOSE i \in hit :
                        strs[i] = o /\ \A j \in hit : strs[j] = o => j <= i])]

\* the body of the loop of search_mode.run for one yielded path
SearchBody(res, path, strs, cs) ==
    IF IsSelf(path) THEN [kind |-> "continue", results |-> res]
    ELSE LET r == OpenRead(path)
             counts == SearchCounts(r.text, strs, cs)
         IN  IF r.exc THEN [kind |-> "continue", results |-> res]
             ELSE IF DOMAIN counts # {}
                  THEN [kind |-> "ok",
                        results |-> [q \in DOMAIN res \cup {path} |->
                                        IF q = path THEN counts ELSE res[q]]]
                  ELSE [kind |-> "ok", results |-> res]

NoneKey == <<"(","n","o","n","e",")">>

\* lines 36-38 of stats_mode.run: the three numbers of one text
Measure(text) ==
    [lines |-> SplitlinesLen(text), words |-> SplitLen(text), chars |-> Len(text)]

\* ext = os.path.splitext(path)[1].lower().lstrip(".") or "(none)"
StatsExt(path) ==
    LET e == Lstrip(Lower(SplitextExt(path)), ".")
    IN  IF e = <<>> THEN NoneKey ELSE e

\* variant: the bucket is assigned the file's numbers instead of added to
AddToExtOverwrite(pe, ext, lines, words, chars) ==
    [e \in DOMAIN pe \cup {ext} |->
        IF e = ext
        THEN [files |-> 1, lines |-> lines, words |-> words, chars |-> chars]
        ELSE pe[e]]

\* the per_ext dict after one file's numbers were added under ext
AddToExt(pe, ext, lines, words, chars) ==
    LET old == IF ext \in DOMAIN pe THEN pe[ext]
               ELSE [files |-> 0, lines |-> 0, words |-> 0, chars |-> 0]
    IN  [e \in DOMAIN pe \cup {ext} |->
            IF e = ext
            THEN [files |-> old.files + 1, lines |-> old.lines + lines,
                  words |-> old.words + words, chars |-> old.chars + chars]
            ELSE pe[e]]

\* variant: the loop body without its try/except
StatsBodyNoExcept(pf, pe, path) ==
    IF IsSelf(path) THEN [kind |-> "continue", per_file |-> pf, per_ext |-> pe]
    ELSE LET r == OpenRead(path)
             lines == Measure(r.text).lines
             words == Measure(r.text).words
             chars == Measure(r.text).chars
         IN  IF r.exc THEN [kind |-> "raise", per_file |-> pf, per_ext |-> pe]
             ELSE [kind |-> "ok",
                   per_file |-> [q \in DOMAIN pf \cup {path} |->
                                   IF q = path
                                   THEN [lines |-> lines, words |-> words, chars |-> chars]
                                   ELSE pf[q]],
                   per_ext |-> AddToExt(pe, StatsExt(path), lines, words, chars)]

\* the body of the loop of stats_mode.run for one yielded path
StatsBody(pf, pe, path) ==
    IF IsSelf(path) THEN [kind |-> "continue", per_file |-> pf, per_ext |-> pe]
    ELSE LET r == OpenRead(path)
             lines == Measure(r.text).lines
             words == Measure(r.text).words
             chars == Measure(r.text).chars
         IN  IF r.exc THEN [kind |-> "continue", per_file |-> pf, per_ext |-> pe]
             ELSE [kind |-> "ok",
                   per_file |-> [q \in DOMAIN pf \cup {path} |->
                                   IF q = path
                                   THEN [lines |-> lines, words |-> words, chars |-> chars]
                                   ELSE pf[q]],
                   per_ext |-> AddToExt(pe, StatsExt(path), lines, words, chars)]

\* variant: a hit is recorded under the lower-cased pattern
RECURSIVE AppendHitsLowerKey(_, _, _)
AppendHitsLowerKey(hits, matched, path) ==
    IF matched = <<>> THEN hits
    ELSE LET k == Lower(Head(matched))
             old == IF k \in DOMAIN hits THEN hits[k] ELSE <<>>
         IN  AppendHitsLowerKey([q \in DOMAIN hits \cup {k} |->
                                   IF q = k THEN Append(old, path) ELSE hits[q]],
                                Tail(matched), path)

\* for p in matched_patterns: hits_by_pattern[p].append(path)
RECURSIVE AppendHits(_, _, _)
AppendHits(hits, matched, path) ==
    IF matched = <<>> THEN hits
    ELSE AppendHits([hits EXCEPT ![Head(matched)] = Append(@, path)],
                    Tail(matched), path)

\* the body of the loop of name_search_mode.run for one yielded path
NameBody(hits, path, pats, cs) ==
    IF IsSelf(path) THEN hits
    ELSE AppendHits(hits, MatchesAnyPattern(Basename(path), pats, cs), path)

(***************************************************************************)
(* fca.reporting: the report files.                                        *)
(***************************************************************************)
Digits == <<"0","1","2","3","4","5","6","7","8","9">>

\* str(n) for a natural number
RECURSIVE Str(_)
Str(n) ==
    IF n < 10 THEN <<Digits[n + 1]>>
    ELSE Str(n \div 10) \o <<Digits[(n % 10) + 1]>>

\* "".join(parts)
RECURSIVE Concat(_)
Concat(parts) ==
    IF parts = <<>> THEN <<>> ELSE Head(parts) \o Concat(Tail(parts))

\* a < b for strings: code point order, a proper prefix first
RECURSIVE StrLess(_, _)
StrLess(a, b) ==
    IF b = <<>> THEN FALSE
    ELSE IF a = <<>> THEN TRUE
    ELSE IF Head(a) = Head(b) THEN StrLess(Tail(a), Tail(b))
    ELSE Ord(Head(a)) < Ord(Head(b))

\* sorted(S) for a set of strings
RECURSIVE Sorted(_)
Sorted(S) ==
    IF S = {} THEN <<>>
    ELSE <<CHOOSE x \in S : \A y \in S \ {x} : StrLess(x, y)>>
         \o Sorted(S \ {CHOOSE x \in S : \A y \in S \ {x} : StrLess(x, y)})

\* datetime.now().strftime("%Y%m%d-%H%M%S"), t seconds into 2000-01-01
Strftime(t) ==
    <<"2","0","0","0","0","1","0","1","-","0","0","0","0">>
    \o <<Digits[(t \div 10) + 1], Digits[(t % 10) + 1]>>

\* reporting.make_output_file(entry_file, prefix) at time t
MakeOutputFile(prefix, t) ==
    Join(OutDir, prefix \o <<"_">> \o Strftime(t) \o <<".","t","x","t">>)

PROGRAM_BANNER ==
    <<"F","i","l","e"," ","C","o","n","t","e","n","t"," ","A","n","a","l",
      "y","z","e","r"," ","v","3",".","0",".","0","\n">>

\* str(b) for a bool
StrBool(b) == IF b THEN <<"T","r","u","e">> ELSE <<"F","a","l","s","e">>

\* the keys of a dict whose keys were inserted in the order of seq
KeysInOrder(seq, dict) == SelectSeq(seq, LAMBDA k : k \in DOMAIN dict)

\* sum(f[k] for k in keys)
RECURSIVE SumSeq(_, _)
SumSeq(keys, f) ==
    IF keys = <<>> THEN 0 ELSE f[Head(keys)] + SumSeq(Tail(keys), f)

\* "  - {s}\n" for each s
BulletLines(items) ==
    Concat([i \in DOMAIN items |-> <<" "," ","-"," ">> \o items[i] \o <<"\n">>])

\* "  {term}: {count}\n" for each term of counts, in insertion order
TermLines(terms, counts) ==
    Concat([i \in DOMAIN terms |->
              <<" "," ">> \o terms[i] \o <<":"," ">> \o Str(counts[terms[i]])
              \o <<"\n">>])

\* the block write_search_report writes for each path, in insertion order
SearchBlocks(paths, res, strs) ==
    Concat([i \in DOMAIN paths |->
              paths[i] \o <<"\n">>
              \o TermLines(KeysInOrder(strs, res[paths[i]]), res[paths[i]])
              \o <<"\n">>])

\* sum(sum(d.values()) for d in results.values())
TotalOcc(paths, res, strs) ==
    SumSeq(paths, [q \in DOMAIN res |-> SumSeq(KeysInOrder(strs, res[q]), res[q])])

\* the text reporting.write_search_report writes
SearchReportText(dir, cs, strs, res, order) ==
    PROGRAM_BANNER
    \o <<"S","t","r","i","n","g"," ","S","e","a","r","c","h"," ","R","e","p",
      "o","r","t","\n","\n">>
    \o <<"D","i","r","e","c","t","o","r","y",":"," ">> \o Abspath(dir) \o <<"\n">>
    \o <<"C","a","s","e","-","s","e","n","s","i","t","i","v","e",":"," ">> \o StrBool(cs) \o <<"\n">>
    \o <<"S","e","a","r","c","h"," ","s","t","r","i","n","g","s",":","\n">>
    \o BulletLines(strs) \o <<"\n">>
    \o (IF DOMAIN res = {}
        THEN <<"N","o"," ","m","a","t","c","h","e","s"," ","f","o","u","n","d",
          ".","\n">>
        ELSE <<"T","o","t","a","l"," ","f","i","l","e","s"," ","w","i","t",
               "h"," ","m","a","t","c","h","e","s",":"," ">> \o Str(Cardinality(DOMAIN res)) \o <<"\n">>
             \o <<"T","o","t","a","l"," ","o","c","c","u","r","r","e","n","c",
               "e","s",":"," ">>
             \o Str(TotalOcc(KeysInOrder(order, res), res, strs)) \o <<"\n","\n">>
             \o SearchBlocks(KeysInOrder(order, res), res, strs))

\* the per-extension lines of write_stats_report
ExtLines(exts, pe) ==
    Concat([i \in DOMAIN exts |->
              <<" "," ",".">> \o exts[i]
              \o <<" "," ","f","i","l","e","s","=">> \o Str(pe[exts[i]].files)
              \o <<" ","l","i","n","e","s","=">> \o Str(pe[exts[i]].lines)
              \o <<" ","w","o","r","d","s","=">> \o Str(pe[exts[i]].words)
              \o <<" ","c","h","a","r","s","=">> \o Str(pe[exts[i]].chars) \o <<"\n">>])

\* the per-file blocks of write_stats_report
FileBlocks(paths, pf) ==
    Concat([i \in DOMAIN paths |->
              paths[i] \o <<"\n">>
              \o <<" "," ","L","i","n","e","s",":"," ">> \o Str(pf[paths[i]].lines) \o <<"\n">>
              \o <<" "," ","W","o","r","d","s",":"," ">> \o Str(pf[paths[i]].words) \o <<"\n">>
              \o <<" "," ","C","h","a","r","a","c","t","e","r","s",":"," ">> \o Str(pf[paths[i]].chars) \o <<"\n","\n">>])

\* the text reporting.write_stats_report writes
StatsReportText(dir, pf, pe) ==
    PROGRAM_BANNER
    \o <<"F","i","l","e"," ","S","t","a","t","i","s","t","i","c","s"," ","R",
      "e","p","o","r","t","\n","\n">>
    \o <<"D","i","r","e","c","t","o","r","y",":"," ">> \o Abspath(dir) \o <<"\n","\n">>
    \o <<"S","u","m","m","a","r","y",":","\n">>
    \o <<" "," ","T","o","t","a","l"," ","f","i","l","e","s",":"," ">> \o Str(Cardinality(DOMAIN pf)) \o <<"\n">>
    \o <<" "," ","T","o","t","a","l"," ","l","i","n","e","s",":"," ">>
    \o Str(SumSeq(Sorted(DOMAIN pf), [q \in DOMAIN pf |-> pf[q].lines])) \o <<"\n">>
    \o <<" "," ","T","o","t","a","l"," ","w","o","r","d","s",":"," ">>
    \o Str(SumSeq(Sorted(DOMAIN pf), [q \in DOMAIN pf |-> pf[q].words])) \o <<"\n">>
    \o <<" "," ","T","o","t","a","l"," ","c","h","a","r","a","c","t","e","r",
      "s",":"," ">>
    \o Str(SumSeq(Sorted(DOMAIN pf), [q \in DOMAIN pf |-> pf[q].chars]))
    \o <<"\n","\n">>
    \o <<"P","e","r","-","e","x","t","e","n","s","i","o","n"," ","t","o","t",
      "a","l","s",":","\n">>
    \o ExtLines(Sorted(DOMAIN pe), pe) \o <<"\n">>
    \o <<"P","e","r","-","f","i","l","e"," ","d","e","t","a","i","l","s",":",
      "\n">>
    \o FileBlocks(Sorted(DOMAIN pf), pf)

\* "  {path}\n" for each path
PathLines(paths) ==
    Concat([i \in DOMAIN paths |-> <<" "," ">> \o paths[i] \o <<"\n">>])

\* variant: the paths of a pattern are written in the order they were found
PatternBlocksUnsorted(pats, hits) ==
    Concat([i \in DOMAIN pats |->
              <<"P","a","t","t","e","r","n",":"," ">> \o pats[i] \o <<"\n">>
              \o (IF hits[pats[i]] = <<>>
                  THEN <<" "," ","(","n","o"," ","m","a","t","c","h","e","s",")",
                    "\n","\n">>
                  ELSE PathLines(hits[pats[i]]) \o <<"\n">>)])

\* the block write_name_search_report writes for each pattern
PatternBlocks(pats, hits) ==
    Concat([i \in DOMAIN pats |->
              <<"P","a","t","t","e","r","n",":"," ">> \o pats[i] \o <<"\n">>
              \o (IF hits[pats[i]] = <<>>
                  THEN <<" "," ","(","n","o"," ","m","a","t","c","h","e","s",")",
                    "\n","\n">>
                  ELSE PathLines(Sorted(Range(hits[pats[i]]))) \o <<"\n">>)])

\* the text reporting.write_name_search_report writes
NameReportText(dir, cs, pats, hits) ==
    PROGRAM_BANNER
    \o <<"F","i","l","e","n","a","m","e"," ","S","e","a","r","c","h"," ","R",
      "e","p","o","r","t","\n","\n">>
    \o <<"D","i","r","e","c","t","o","r","y",":"," ">> \o Abspath(dir) \o <<"\n">>
    \o <<"C","a","s","e","-","s","e","n","s","i","t","i","v","e",":"," ">> \o StrBool(cs) \o <<"\n","\n">>
    \o <<"P","a","t","t","e","r","n","s"," ","s","e","a","r","c","h","e","d",
      ":","\n">>
    \o BulletLines(pats) \o <<"\n">>
    \o <<"P","a","t","t","e","r","n","s"," ","w","i","t","h"," ","m","a","t",
      "c","h","e","s",":"," ">> \o Str(Cardinality({i \in DOMAIN pats : hits[pats[i]] # <<>>}))
    \o <<" ","/"," ">> \o Str(Len(pats)) \o <<"\n">>
    \o <<"T","o","t","a","l"," ","m","a","t","c","h","i","n","g"," ","f","i",
      "l","e","s",":"," ">>
    \o Str(SumSeq(pats, [q \in DOMAIN hits |-> Len(hits[q])])) \o <<"\n","\n">>
    \o PatternBlocks(pats, hits)

\* the operation tag of each driver's report file
Prefix(m) ==
    CASE m = "search" -> <<"s","t","r","i","n","g","_","s","e","a","r","c","h">>
      [] m = "stats" -> <<"f","i","l","e","_","s","t","a","t","s">>
      [] m = "names" -> <<"n","a","m","e","_","s","e","a","r","c","h">>

\* the text the driver of mode m hands to its report writer
ReportText(m) ==
    CASE m = "search" ->
           SearchReportText(directory, case_sensitive, strings, results, yielded)
      [] m = "stats" -> StatsReportText(directory, per_file, per_ext)
      [] m = "names" ->
           NameReportText(directory, case_sensitive, patterns, hits_by_pattern)

\* open(out, "w") and the writes: the file is created or replaced
WriteFile(disk, path, text) ==
    [q \in DOMAIN disk \cup {path} |-> IF q = path THEN text ELSE disk[q]]

(***************************************************************************)
(* Initial states: a file system, a FilterPolicy and a directory argument. *)
(***************************************************************************)
\* at most this many files or directories are unreadable
MaxFaults == 1

\* directories that may be unreadable
FaultDirs == {DirS}

Init ==
    /\ files \in {F \in SUBSET CandFiles : Cardinality(F) <= MaxFiles}
    /\ unreadable \in {U \in SUBSET (files \cup FaultDirs) : Cardinality(U) <= MaxFaults}
    /\ directory \in Roots
    /\ excluded_dirs \in DirPolicies
    /\ \E pol \in ExtPolicies : included_exts = pol[1] /\ excluded_exts = pol[2]
    /\ mode = "none"
    /\ case_sensitive = FALSE
    /\ strings = <<>>
    /\ patterns = <<>>
    /\ pc = "idle"
    /\ stack = <<>>
    /\ yielded = <<>>
    /\ results = EmptyDict
    /\ per_file = EmptyDict
    /\ per_ext = EmptyDict
    /\ hits_by_pattern = EmptyDict
    /\ out = None
    /\ now = 0
    /\ reports = EmptyDict
    /\ run_no = 1
    /\ history = {}
    /\ op = "none"
    /\ arg = <<>>
    /\ ret = <<>>
    /\ args = NoArgs
    /\ cfg = EmptyDict
    /\ config_json = NoConfigFile
    /\ config_io = <<>>

(***************************************************************************)
(* Actions.                                                                *)
(***************************************************************************)
\* search_mode.run up to the loop: the strings were loaded, results = {}
RunSearch ==
    /\ pc = "idle"
    /\ \E strs \in StringLists \cup {<<>>}, cs \in BOOLEAN :
        /\ mode' = "search"
        /\ strings' = strs
        /\ case_sensitive' = cs
        /\ IF strs = <<>>
           THEN pc' = "done" /\ stack' = stack
           ELSE LET w == WalkStart(directory, excluded_dirs)
                IN  /\ pc' = IF w.raise THEN "raised" ELSE "iter"
                    /\ stack' = w.stack
    /\ results' = EmptyDict
    /\ out' = None
    /\ UNCHANGED <<env, sink, patterns, yielded, per_file, per_ext, hits_by_pattern>>

\* stats_mode.run up to the loop: per_file = {}, per_ext = {}
RunStats ==
    /\ pc = "idle"
    /\ mode' = "stats"
    /\ LET w == WalkStart(directory, excluded_dirs)
       IN  /\ pc' = IF w.raise THEN "raised" ELSE "iter"
           /\ stack' = w.stack
    /\ per_file' = EmptyDict
    /\ per_ext' = EmptyDict
    /\ UNCHANGED <<env, sink, case_sensitive, strings, patterns, yielded, results,
                   hits_by_pattern, out>>

\* name_search_mode.run up to the loop: the patterns were loaded and every
\* pattern got an empty list
RunNames ==
    /\ pc = "idle"
    /\ \E pats \in PatternLists \cup {<<>>}, cs \in BOOLEAN :
        /\ mode' = "names"
        /\ patterns' = pats
        /\ IF pats = <<>>
           THEN /\ pc' = "done" /\ stack' = stack
                /\ UNCHANGED <<case_sensitive, hits_by_pattern>>
           ELSE /\ LET w == WalkStart(directory, excluded_dirs)
                   IN  /\ pc' = IF w.raise THEN "raised" ELSE "iter"
                       /\ stack' = w.stack
                /\ case_sensitive' = cs
                /\ hits_by_pattern' = [p \in Range(pats) |-> <<>>]
    /\ out' = None
    /\ UNCHANGED <<env, sink, strings, yielded, results, per_file, per_ext>>

\* os.walk enters the next subdirectory of the directory it is in
WalkDir ==
    /\ pc = "iter"
    /\ stack # <<>>
    /\ stack[Len(stack)].files = {}
    /\ \E d \in stack[Len(stack)].dirs :
        LET w == WalkInto(stack, d, excluded_dirs)
        IN  /\ stack' = w.stack
            /\ pc' = IF w.raise THEN "raised" ELSE pc
    /\ UNCHANGED <<env, sink, mode, case_sensitive, strings, patterns, yielded,
                   results, per_file, per_ext, hits_by_pattern, out>>

\* iter_files meets a file the extension filters reject: continue
SkipFile ==
    /\ pc = "iter"
    /\ stack # <<>>
    /\ \E name \in stack[Len(stack)].files :
        /\ ~FileAllowed(name, included_exts, excluded_exts)
        /\ stack' = AfterFile(stack, name)
    /\ UNCHANGED <<env, sink, mode, case_sensitive, strings, patterns, pc, yielded,
                   results, per_file, per_ext, hits_by_pattern, out>>

\* iter_files yields a path and search_mode.run handles it
SearchFile ==
    /\ pc = "iter"
    /\ mode = "search"
    /\ stack # <<>>
    /\ \E name \in stack[Len(stack)].files :
        /\ FileAllowed(name, included_exts, excluded_exts)
        /\ LET path == Join(stack[Len(stack)].top, name)
               b == SearchBody(results, path, strings, case_sensitive)
           IN  /\ yielded' = Append(yielded, path)
               /\ stack' = AfterFile(stack, name)
               /\ results' = b.results
               /\ pc' = IF b.kind = "raise" THEN "raised" ELSE pc
    /\ UNCHANGED <<env, sink, mode, case_sensitive, strings, patterns, per_file,
                   per_ext, hits_by_pattern, out>>

\* iter_files yields a path and stats_mode.run handles it
StatsFile ==
    /\ pc = "iter"
    /\ mode = "stats"
    /\ stack # <<>>
    /\ \E name \in stack[Len(stack)].files :
        /\ FileAllowed(name, included_exts, excluded_exts)
        /\ LET path == Join(stack[Len(stack)].top, name)
               b == StatsBody(per_file, per_ext, path)
           IN  /\ yielded' = Append(yielded, path)
               /\ stack' = AfterFile(stack, name)
               /\ per_file' = b.per_file
               /\ per_ext' = b.per_ext
               /\ pc' = IF b.kind = "raise" THEN "raised" ELSE pc
    /\ UNCHANGED <<env, sink, mode, case_sensitive, strings, patterns, results,
                   hits_by_pattern, out>>

\* iter_files yields a path and name_search_mode.run handles it
NameFile ==
    /\ pc = "iter"
    /\ mode = "names"
    /\ stack # <<>>
    /\ \E name \in stack[Len(stack)].files :
        /\ FileAllowed(name, included_exts, excluded_exts)
        /\ LET path == Join(stack[Len(stack)].top, name)
           IN  /\ yielded' = Append(yielded, path)
               /\ stack' = AfterFile(stack, name)
               /\ hits_by_pattern' = NameBody(hits_by_pattern, path, patterns,
                                              case_sensitive)
    /\ UNCHANGED <<env, sink, mode, case_sensitive, strings, patterns, pc, results,
                   per_file, per_ext, out>>

\* what a finished run is remembered by: its inputs and its result
\* structures, the lists of hits_by_pattern as sets of paths
RunRecord ==
    [inputs |-> <<directory, excluded_dirs, excluded_exts, included_exts, mode,
                  case_sensitive, strings, patterns>>,
     results |-> results,
     per_file |-> per_file,
     per_ext |-> per_ext,
     hits |-> [q \in DOMAIN hits_by_pattern |-> Range(hits_by_pattern[q])]]

\* iter_files is exhausted: the driver writes its report and returns its path
Finish ==
    /\ pc = "iter"
    /\ stack = <<>>
    /\ pc' = "done"
    /\ out' = MakeOutputFile(Prefix(mode), now)
    /\ reports' = WriteFile(reports, MakeOutputFile(Prefix(mode), now),
                            ReportText(mode))
    /\ history' = history \cup {RunRecord}
    /\ UNCHANGED <<env, now, run_no, mode, case_sensitive, strings, patterns,
                   stack, yielded, results, per_file, per_ext, hits_by_pattern>>

Next ==
    \/ RunSearch
    \/ RunStats
    \/ RunNames
    \/ WalkDir
    \/ SkipFile
    \/ SearchFile
    \/ StatsFile
    \/ NameFile
    \/ Finish

Spec == Init /\ [][Next]_vars

\* the states in which a step of Next can be taken: a run can start, a file
\* or a directory is waiting in the directory os.walk is in, or the walk
\* is over and the report can be written
CanStep ==
    \/ pc = "idle"
    \/ /\ pc = "iter"
       /\ \/ stack = <<>>
          \/ stack[Len(stack)].files # {}
          \/ stack[Len(stack)].dirs # {}

\* the program is one thread that runs without suspension, so a step that
\* can be taken is taken: weak fairness of Next, WF_vars(Next), written out
\* with CanStep as the enabling condition of Next
SpecLive == Spec /\ ([]<>(~CanStep) \/ []<><<Next>>_vars)

(***************************************************************************)
(* Several runs of the program, one after the other, over the same tree.   *)
(***************************************************************************)
\* the program is started at most this many times
MaxRuns == 2

\* the user starts the program again once a run has ended: main() builds
\* everything anew, the clock has moved on by less than a second or by more
NewRun ==
    /\ pc = "done"
    /\ run_no < MaxRuns
    /\ run_no' = run_no + 1
    /\ \E dt \in 0..1 : now' = now + dt
    /\ pc' = "idle"
    /\ mode' = "none"
    /\ case_sensitive' = FALSE
    /\ strings' = <<>>
    /\ patterns' = <<>>
    /\ stack' = <<>>
    /\ yielded' = <<>>
    /\ results' = EmptyDict
    /\ per_file' = EmptyDict
    /\ per_ext' = EmptyDict
    /\ hits_by_pattern' = EmptyDict
    /\ out' = None
    /\ UNCHANGED <<env, reports, history>>

\* a tree without faults that holds the program's own directory
InitRuns ==
    /\ Init
    /\ files \subseteq {FileA, FileC}
    /\ unreadable = {}
    /\ directory = RootRel
    /\ excluded_dirs = {}

NextRuns == Next \/ NewRun

SpecRuns == InitRuns /\ [][NextRuns]_vars

(***************************************************************************)
(* One function at a time, applied to an input drawn from a bounded set.   *)
(***************************************************************************)
\* the strings over an alphabet of at most n characters
StringsUpTo(alphabet, n) == UNION {[1..k -> alphabet] : k \in 0..n}

\* the drivers at rest while one function is studied
AtRest ==
    /\ files = {}
    /\ unreadable = {}
    /\ directory = RootRel
    /\ excluded_dirs = {}
    /\ included_exts = {}
    /\ excluded_exts = {}
    /\ mode = "none"
    /\ pc = "pure"
    /\ stack = <<>>
    /\ yielded = <<>>
    /\ results = EmptyDict
    /\ per_file = EmptyDict
    /\ per_ext = EmptyDict
    /\ hits_by_pattern = EmptyDict
    /\ out = None
    /\ now = 0
    /\ reports = EmptyDict
    /\ run_no = 1
    /\ history = {}
    /\ op = "none"
    /\ ret = <<>>
    /\ args = NoArgs
    /\ cfg = EmptyDict
    /\ config_json = NoConfigFile
    /\ config_io = <<>>

\* what applying a function leaves alone
rest == <<files, unreadable, directory, excluded_dirs, excluded_exts,
          included_exts, mode, case_sensitive, strings, patterns, pc, stack,
          yielded, results, per_file, per_ext, hits_by_pattern, out, sink, arg,
          conf>>

\* longest file text and longest search string of the counting study
MaxHay == 4
MaxNeedle == 2

\* the letters the texts and search strings are made of
CountAlphabet == {"a", "A", LongS}

\* a text, one search string and a case flag
InitCount ==
    /\ AtRest
    /\ arg \in StringsUpTo(CountAlphabet, MaxHay)
    /\ strings \in {<<n>> : n \in StringsUpTo(CountAlphabet, MaxNeedle) \ {<<>>}}
    /\ case_sensitive \in BOOLEAN
    /\ patterns = <<>>

\* lines 78-83 of search_mode.run on the text arg
ApplyCount ==
    /\ pc = "pure"
    /\ op = "none"
    /\ op' = "count"
    /\ ret' = SearchCounts(arg, strings, case_sensitive)
    /\ UNCHANGED rest

SpecCount == InitCount /\ [][ApplyCount]_vars

\* longest base name and longest pattern (in pattern elements) of the
\* matching study
MaxName == 3
MaxPat == 3

\* the elements patterns are made of: a literal character, "*", "?" and a
\* character class
GlobElements ==
    { <<"lit", "a">>, <<"lit", "B">>, <<"star">>, <<"any">>,
      <<"class", {"a", "b"}>> }

\* the text of a pattern element; a class lists its characters in order
ElementText(e) ==
    CASE e[1] = "lit" -> <<e[2]>>
      [] e[1] = "star" -> <<"*">>
      [] e[1] = "any" -> <<"?">>
      [] e[1] = "class" -> <<"[">> \o Concat(Sorted({<<c>> : c \in e[2]})) \o <<"]">>

\* the pattern string the user typed for a list of elements
PatternText(elems) == Concat([i \in DOMAIN elems |-> ElementText(elems[i])])

\* the directory parts of the paths of the matching study
GlobDirs == { <<"d","/">>, <<"a","B","/">> }

\* "*.txt" against a.txt and A.TXT
GlobExamples ==
    { [path |-> <<"d","/">> \o n,
       elems |-> << <<"star">>, <<"lit",".">>, <<"lit","t">>, <<"lit","x">>,
                    <<"lit","t">> >>] :
        n \in { <<"a",".","t","x","t">>, <<"A",".","T","X","T">> } }

\* a yielded path, one pattern and a case flag
InitGlob ==
    /\ AtRest
    /\ arg \in GlobExamples \cup
              { [path |-> dir \o n, elems |-> e] :
                  dir \in GlobDirs,
                  n \in StringsUpTo({"a", "B"}, MaxName) \ {<<>>},
                  e \in StringsUpTo(GlobElements, MaxPat) \ {<<>>} }
    /\ patterns = <<PatternText(arg.elems)>>
    /\ case_sensitive \in BOOLEAN
    /\ strings = <<>>

\* lines 106 and 112-118 of name_search_mode.run on the path arg.path
ApplyMatch ==
    /\ pc = "pure"
    /\ op = "none"
    /\ op' = "match"
    /\ ret' = NameBody([q \in Range(patterns) |-> <<>>], arg.path, patterns,
                       case_sensitive)
    /\ UNCHANGED rest

SpecGlob == InitGlob /\ [][ApplyMatch]_vars

\* longest file content of the statistics study, in bytes
MaxContent == 3

\* the bytes file contents are made of
ContentBytes == {"a", " ", "\n", "\r", "\f", BadByte}

\* the bytes of one file
InitStats ==
    /\ AtRest
    /\ arg \in StringsUpTo(ContentBytes, MaxContent)
    /\ case_sensitive = FALSE
    /\ strings = <<>>
    /\ patterns = <<>>

\* lines 32-38 of stats_mode.run on a file that holds the bytes arg
ApplyStats ==
    /\ pc = "pure"
    /\ op = "none"
    /\ op' = "stats"
    /\ ret' = Measure(ReadText(arg))
    /\ UNCHANGED rest

SpecStats == InitStats /\ [][ApplyStats]_vars

(***************************************************************************)
(* fca.config.normalize_ext_list                                           *)
(***************************************************************************)
\* str.rstrip()
RECURSIVE Rstrip(_)
Rstrip(s) ==
    IF s # <<>> /\ s[Len(s)] \in Whitespace
    THEN Rstrip(SubSeq(s, 1, Len(s) - 1))
    ELSE s

\* str.strip()
RECURSIVE Strip(_)
Strip(s) ==
    IF s # <<>> /\ Head(s) \in Whitespace THEN Strip(Tail(s)) ELSE Rstrip(s)

\* str(v).strip().lower().lstrip(".") for one entry
CleanExt(v) == Lstrip(Lower(Strip(v)), ".")

\* config.normalize_ext_list(values) for a list of strings
normalize_ext_list(values) ==
    Sorted({CleanExt(v) : v \in {w \in Range(values) : Strip(w) # <<>>}} \ {<<>>})

\* longest extension string and longest list of the normalisation study
MaxExtLen == 3
MaxExtList == 2

\* the characters extension strings are made of
ExtChars == {".", " ", "P"}

\* a list of extension strings as the user or config.json supplies it
InitNorm ==
    /\ AtRest
    /\ arg \in StringsUpTo(StringsUpTo(ExtChars, MaxExtLen), MaxExtList)
    /\ case_sensitive = FALSE
    /\ strings = <<>>
    /\ patterns = <<>>

\* normalize_ext_list(arg)
ApplyNormalize ==
    /\ pc = "pure"
    /\ op = "none"
    /\ op' = "normalize"
    /\ ret' = normalize_ext_list(arg)
    /\ UNCHANGED rest

SpecNorm == InitNorm /\ [][ApplyNormalize]_vars

(***************************************************************************)
(* Loading the search strings and the name patterns: the batch file next   *)
(* to the entry file, then the lines the user types.                       *)
(***************************************************************************)
\* ask_yes_no(prompt, default) once the user has given a valid answer:
\* ENTER takes the default, "y" is yes, "n" is no
ask_yes_no(ans, default) ==
    IF ans = <<>> THEN default ELSE ans = <<"y">>

\* open(path, "r", encoding="utf-8") and the first read of a file shorter
\* than one read buffer: a UnicodeDecodeError when a byte is not UTF-8
DecodeStrict(bytes) ==
    [exc |-> BadByte \in Range(bytes), text |-> UniversalNewlines(bytes)]

\* `for line in f`: the text cut after every "\n"
RECURSIVE FileLines(_)
FileLines(text) ==
    IF text = <<>> THEN <<>>
    ELSE IF \A i \in 1..Len(text) : text[i] # "\n" THEN <<text>>
    ELSE LET k == CHOOSE i \in 1..Len(text) :
                      text[i] = "\n" /\ \A j \in 1..(i-1) : text[j] # "\n"
         IN  <<SubSeq(text, 1, k)>> \o FileLines(Drop(text, k + 1))

\* the mark of a comment line in a batch file
COMMENT == <<"/","/">>

\* a loop over the lines that looks for "//" at the start of the line as
\* it stands in the file
BatchEntriesRaw(lines) ==
    LET kept == SelectSeq(lines, LAMBDA l : Strip(l) # <<>> /\ ~StartsWith(l, COMMENT))
    IN  [i \in 1..Len(kept) |-> Strip(kept[i])]

\* the loop over the lines of the batch file: s = line.strip(), kept when
\* s is not empty and does not start with "//"
BatchEntries(lines) ==
    SelectSeq([i \in 1..Len(lines) |-> Strip(lines[i])],
              LAMBDA s : s # <<>> /\ ~StartsWith(s, COMMENT))

\* the loop `s = input("> ").strip()`: the entries typed before the first
\* line that is empty once stripped; the lines after it are never read
ManualEntries(typed) ==
    LET stripped == [i \in 1..Len(typed) |-> Strip(typed[i])]
        blanks == {i \in 1..Len(typed) : stripped[i] = <<>>}
        n == IF blanks = {} THEN Len(typed)
             ELSE (CHOOSE i \in blanks : \A j \in blanks : i <= j) - 1
    IN  SubSeq(stripped, 1, n)

\* a de-duplication that takes two strings for the same when they differ
\* in case only
DedupeLower(seq) ==
    LET first == SelectSeq([i \in 1..Len(seq) |-> i],
                           LAMBDA i : \A j \in 1..(i-1) : Lower(seq[j]) # Lower(seq[i]))
    IN  [k \in 1..Len(first) |-> seq[first[k]]]

\* the de-duplication loop: a string is appended unless it was seen
Dedupe(seq) ==
    LET first == SelectSeq([i \in 1..Len(seq) |-> i],
                           LAMBDA i : \A j \in 1..(i-1) : seq[j] # seq[i])
    IN  [k \in 1..Len(first) |-> seq[first[k]]]

\* the batch file is there and the user agrees to use it
BatchUsed(inp) == inp.exists /\ ask_yes_no(inp.use, TRUE)

\* a merge that puts the typed entries before those of the batch file
AddManualFirst(entries, inp) ==
    IF ask_yes_no(inp.add, entries = <<>>)
    THEN ManualEntries(inp.typed) \o entries
    ELSE entries

\* "Add ... manually?" with default `not bool(entries)`, then the typed
\* entries appended to those of the batch file
AddManual(entries, inp) ==
    IF ask_yes_no(inp.add, entries = <<>>)
    THEN entries \o ManualEntries(inp.typed)
    ELSE entries

\* the end of both loaders: None for an empty list, else the list
\* de-duplicated
LoadResult(entries) ==
    [kind |-> "return", value |-> IF entries = <<>> THEN None ELSE Dedupe(entries)]

\* search_mode.load_search_strings: the batch file is read with no
\* exception handler around it
load_search_strings(inp) ==
    IF BatchUsed(inp)
    THEN IF DecodeStrict(inp.bytes).exc
         THEN [kind |-> "raise", value |-> None]
         ELSE LoadResult(AddManual(BatchEntries(FileLines(DecodeStrict(inp.bytes).text)), inp))
    ELSE LoadResult(AddManual(<<>>, inp))

\* name_search_mode.load_name_patterns: an exception while reading the
\* batch file is swallowed and the file gives no pattern
load_name_patterns(inp) ==
    IF BatchUsed(inp) /\ ~DecodeStrict(inp.bytes).exc
    THEN LoadResult(AddManual(BatchEntries(FileLines(DecodeStrict(inp.bytes).text)), inp))
    ELSE LoadResult(AddManual(<<>>, inp))

\* longest batch file, in pieces, and most lines typed
MaxBatch == 3
MaxTyped == 2

\* what batch files are made of
BatchPieces == {<<"a">>, <<"A">>, <<" ">>, COMMENT, <<"\n">>, <<BadByte>>}

\* the lines a user types
TypedLines == {<<"a">>, <<" ","/","/">>, <<" ">>}

\* the answers ask_yes_no accepts: ENTER, y, n
Answers == {<<>>, <<"y">>, <<"n">>}

\* the pieces of a batch file put end to end
RECURSIVE Flatten(_)
Flatten(pieces) ==
    IF pieces = <<>> THEN <<>> ELSE Head(pieces) \o Flatten(Tail(pieces))

\* what a loader meets: the batch file (if any), the two answers and the
\* lines typed
LoadInputs(nbatch, ntyped) ==
    { [exists |-> TRUE, bytes |-> Flatten(b), use |-> u, add |-> a, typed |-> t] :
        b \in StringsUpTo(BatchPieces, nbatch), u \in {<<>>, <<"n">>},
        a \in Answers, t \in StringsUpTo(TypedLines, ntyped) }
    \cup
    { [exists |-> FALSE, bytes |-> <<>>, use |-> <<>>, add |-> a, typed |-> t] :
        a \in Answers, t \in StringsUpTo(TypedLines, ntyped) }

InitLoad ==
    /\ AtRest
    /\ arg \in LoadInputs(MaxBatch, MaxTyped)
    /\ case_sensitive = FALSE
    /\ strings = <<>>
    /\ patterns = <<>>

\* load_search_strings(entry_file) with arg as its surroundings
ApplyLoadStrings ==
    /\ pc = "pure"
    /\ op = "none"
    /\ op' = "load_search_strings"
    /\ ret' = load_search_strings(arg)
    /\ UNCHANGED rest

\* load_name_patterns(entry_file) with arg as its surroundings
ApplyLoadPatterns ==
    /\ pc = "pure"
    /\ op = "none"
    /\ op' = "load_name_patterns"
    /\ ret' = load_name_patterns(arg)
    /\ UNCHANGED rest

SpecLoad == InitLoad /\ [][ApplyLoadStrings \/ ApplyLoadPatterns]_vars

(***************************************************************************)
(* A String Search or Name Search run from its first line: the loader is   *)
(* called with arg as its surroundings, then the files are walked.         *)
(***************************************************************************)
\* longest batch file, in pieces, and most lines typed before a run
MaxBatchRun == 2
MaxTypedRun == 1

\* a small tree with one file the extension filter rejects
InitInput ==
    /\ Init
    /\ files = {FileA, FileC}
    /\ unreadable = {}
    /\ directory = RootRel
    /\ excluded_dirs = {}
    /\ included_exts = {ExtPy, ExtTxt}
    /\ excluded_exts = {ExtTxt}

\* search_mode.run, lines 62-70: load_search_strings may raise, return
\* None or return the strings
StartSearch ==
    /\ pc = "idle"
    /\ op = "none"
    /\ \E inp \in LoadInputs(MaxBatchRun, MaxTypedRun), cs \in BOOLEAN :
        /\ arg' = inp
        /\ op' = "load_search_strings"
        /\ ret' = load_search_strings(inp)
        /\ mode' = "search"
        /\ case_sensitive' = cs
        /\ IF load_search_strings(inp).kind = "raise"
           THEN pc' = "raised" /\ strings' = <<>> /\ stack' = stack
           ELSE IF load_search_strings(inp).value = None
           THEN pc' = "done" /\ strings' = <<>> /\ stack' = stack
           ELSE /\ strings' = load_search_strings(inp).value
                /\ pc' = IF WalkStart(directory, excluded_dirs).raise
                         THEN "raised" ELSE "iter"
                /\ stack' = WalkStart(directory, excluded_dirs).stack
    /\ results' = EmptyDict
    /\ out' = None
    /\ UNCHANGED <<files, unreadable, directory, excluded_dirs, excluded_exts,
                   included_exts, sink, conf, patterns, yielded, per_file,
                   per_ext, hits_by_pattern>>

\* name_search_mode.run, lines 98-108: load_name_patterns returns None or
\* the patterns; the case question is asked only when there are patterns
StartNames ==
    /\ pc = "idle"
    /\ op = "none"
    /\ \E inp \in LoadInputs(MaxBatchRun, MaxTypedRun), cs \in BOOLEAN :
        /\ arg' = inp
        /\ op' = "load_name_patterns"
        /\ ret' = load_name_patterns(inp)
        /\ mode' = "names"
        /\ IF load_name_patterns(inp).value = None
           THEN /\ pc' = "done" /\ patterns' = <<>> /\ stack' = stack
                /\ UNCHANGED <<case_sensitive, hits_by_pattern>>
           ELSE /\ patterns' = load_name_patterns(inp).value
                /\ case_sensitive' = cs
                /\ hits_by_pattern' =
                       [q \in Range(load_name_patterns(inp).value) |-> <<>>]
                /\ pc' = IF WalkStart(directory, excluded_dirs).raise
                         THEN "raised" ELSE "iter"
                /\ stack' = WalkStart(directory, excluded_dirs).stack
    /\ out' = None
    /\ UNCHANGED <<files, unreadable, directory, excluded_dirs, excluded_exts,
                   included_exts, sink, conf, strings, yielded, results,
                   per_file, per_ext>>

NextInput ==
    \/ StartSearch
    \/ StartNames
    \/ WalkDir
    \/ SkipFile
    \/ SearchFile
    \/ NameFile
    \/ Finish

SpecInput == InitInput /\ [][NextInput]_vars

(***************************************************************************)
(* fca.config and fca.cli.main: the configuration is loaded, edited,       *)
(* overridden and saved, the filters are prepared, the directory is chosen *)
(* and remembered, then a driver is run.                                   *)
(***************************************************************************)
\* JSON values found in config.json: a list of strings, a string, a number,
\* null
JList(l) == [t |-> "list", v |-> l]
JStr(x) == [t |-> "str", v |-> <<x>>]
JNum == [t |-> "num", v |-> <<>>]
JNull == [t |-> "null", v |-> <<>>]

\* dct[k] = v
Put(dct, k, v) == [x \in DOMAIN dct \cup {k} |-> IF x = k THEN v ELSE dct[x]]

\* dct.get(k, default)
Get(dct, k, default) == IF k \in DOMAIN dct THEN dct[k] ELSE default

\* config.DEFAULT_EXCLUDE_DIRS
DEFAULT_EXCLUDE_DIRS ==
    { <<".","v","e","n","v">>, <<".","v","s","c","o","d","e">> }

\* config.merged_excluded_dirs(cfg)
merged_excluded_dirs(c) ==
    IF /\ "excluded_dirs" \in DOMAIN c
       /\ c["excluded_dirs"].t = "list"
       /\ c["excluded_dirs"].v # <<>>
    THEN Range(c["excluded_dirs"].v)
    ELSE DEFAULT_EXCLUDE_DIRS

\* set(value): the items of a list, the characters of a string, a
\* TypeError for a number or null
SetOf(val) ==
    CASE val.t = "list" -> [raise |-> FALSE, value |-> Range(val.v)]
      [] val.t = "str" -> [raise |-> FALSE,
                           value |-> {<<ch>> : ch \in Range(val.v[1])}]
      [] OTHER -> [raise |-> TRUE, value |-> {}]

\* config.excluded_extensions / included_extensions: the normalised list
\* under the key as a set, empty when the value is not a list
ExtensionsOf(c, key) ==
    IF key \in DOMAIN c /\ c[key].t = "list"
    THEN Range(normalize_ext_list(c[key].v))
    ELSE {}

\* config.load_config on the file as it is on disk
load_config(file) == IF file.kind = "dict" THEN file.value ELSE EmptyDict

\* config.json and the record of the calls that touched it
Disk == [json |-> config_json, io |-> config_io]

\* config.save_config(entry_file, c)
save_config(st, c) ==
    [json |-> [kind |-> "dict", value |-> c], io |-> Append(st.io, "save")]

\* a main that saves whether or not --no-config was given
SaveAlways(a, st, c) == save_config(st, c)

\* `if not args.no_config: save_config(entry_file, cfg)`
SaveUnlessNoConfig(a, st, c) ==
    IF ~a.no_config THEN save_config(st, c) ELSE st

\* line 130: cfg = {} if args.no_config else load_config(entry_file)
LoadUnlessNoConfig(a, st) ==
    IF a.no_config
    THEN [cfg |-> EmptyDict, io |-> st.io]
    ELSE [cfg |-> load_config(st.json), io |-> Append(st.io, "load")]

\* lines 133-134 (and 78-79): excluded_dirs is put into cfg when missing
EnsureExcludedDirs(c) ==
    IF "excluded_dirs" \in DOMAIN c THEN c
    ELSE Put(c, "excluded_dirs", JList(Sorted(merged_excluded_dirs(c))))

\* prompts.ask_extensions_list on the comma-separated parts the user typed
ask_extensions_list(parts) ==
    {CleanExt(q) : q \in {w \in Range(parts) : Strip(w) # <<>>}}

\* one of the two questions of edit_config_interactive: None is the
\* answer no, else the parts typed replace the list under the key
EditKey(c, key, answer) ==
    IF answer = None THEN c
    ELSE Put(c, key, JList(normalize_ext_list(Sorted(ask_extensions_list(answer)))))

\* cli.edit_config_interactive(cfg) with the user's two answers
edit_config_interactive(c, e) ==
    EnsureExcludedDirs(
        EditKey(EditKey(c, "excluded_extensions", e.ex), "included_extensions", e.inc))

\* lines 150-153: --include and --exclude replace the configured lists
Override(c, key, value) ==
    IF value = None THEN c ELSE Put(c, key, JList(normalize_ext_list(value)))

\* a directory below the program's directory, as the user names it
RootSub == <<"p","/","s">>

\* the command lines of the model
ArgSets ==
    [no_config : BOOLEAN, edit_config : BOOLEAN,
     include : {None, <<ExtPy, <<".","T","X","T">>>>},
     exclude : {None, <<ExtTxt>>},
     dir : {None, RootSub, RootMissing}]

\* the contents of config.json of the model
ConfigFiles ==
    { NoConfigFile,
      [kind |-> "invalid", value |-> EmptyDict],
      [kind |-> "nondict", value |-> EmptyDict],
      [kind |-> "dict", value |-> EmptyDict] }
    \cup
    { [kind |-> "dict", value |-> ("excluded_dirs" :> d)] :
        d \in {JList(<<<<"t">>>>), JList(<<>>), JStr(<<"t">>), JNum, JNull} }
    \cup
    { [kind |-> "dict",
       value |-> ("excluded_dirs" :> JList(<<<<"t">>>>)
                  @@ "excluded_extensions" :> JList(<<ExtTxt>>)
                  @@ "default_directory" :> JStr(<<"/","w">>))] }

\* what the user answers to the questions of edit_config_interactive
Edits == { [ex |-> None, inc |-> None], [ex |-> <<<<".","J","s">>>>, inc |-> None],
           [ex |-> None, inc |-> <<ExtPy, <<" ">>>>] }

\* the program is started: a command line, a config.json, a small tree
InitMain ==
    /\ files = {FileC, FileD}
    /\ unreadable = {}
    /\ directory = <<>>
    /\ excluded_dirs = {}
    /\ excluded_exts = {}
    /\ included_exts = {}
    /\ mode = "none"
    /\ case_sensitive = FALSE
    /\ strings = <<>>
    /\ patterns = <<>>
    /\ pc = "main"
    /\ stack = <<>>
    /\ yielded = <<>>
    /\ results = EmptyDict
    /\ per_file = EmptyDict
    /\ per_ext = EmptyDict
    /\ hits_by_pattern = EmptyDict
    /\ out = None
    /\ now = 0
    /\ reports = EmptyDict
    /\ run_no = 1
    /\ history = {}
    /\ op = "none"
    /\ arg = <<>>
    /\ ret = <<>>
    /\ args \in ArgSets
    /\ cfg = EmptyDict
    /\ config_json \in ConfigFiles
    /\ config_io = <<>>

\* what main leaves alone until it dispatches
idle_run == <<files, unreadable, mode, case_sensitive, strings, patterns, stack,
              yielded, results, per_file, per_ext, hits_by_pattern, out, sink,
              op, arg, ret, args>>

\* main, lines 127-134: the configuration is loaded unless --no-config,
\* and excluded_dirs is put into it when missing
MainLoad ==
    /\ pc = "main"
    /\ pc' = "loaded"
    /\ cfg' = EnsureExcludedDirs(LoadUnlessNoConfig(args, Disk).cfg)
    /\ config_io' = LoadUnlessNoConfig(args, Disk).io
    /\ UNCHANGED <<idle_run, config_json, directory, excluded_dirs,
                   excluded_exts, included_exts>>

\* main, lines 137-141: --edit-config edits, saves and exits
MainEditConfig ==
    /\ pc = "loaded"
    /\ args.edit_config
    /\ pc' = "exit"
    /\ \E e \in Edits :
        /\ cfg' = edit_config_interactive(cfg, e)
        /\ config_json' = SaveUnlessNoConfig(args, Disk, edit_config_interactive(cfg, e)).json
        /\ config_io' = SaveUnlessNoConfig(args, Disk, edit_config_interactive(cfg, e)).io
    /\ UNCHANGED <<idle_run, directory, excluded_dirs, excluded_exts,
                   included_exts>>

\* main, lines 144-147: "Edit configuration?"; on yes the configuration
\* is edited and saved
MainAskEdit ==
    /\ pc = "loaded"
    /\ ~args.edit_config
    /\ pc' = "asked"
    /\ \/ UNCHANGED <<cfg, config_json, config_io>>
       \/ \E e \in Edits :
            /\ cfg' = edit_config_interactive(cfg, e)
            /\ config_json' = SaveUnlessNoConfig(args, Disk, edit_config_interactive(cfg, e)).json
            /\ config_io' = SaveUnlessNoConfig(args, Disk, edit_config_interactive(cfg, e)).io
    /\ UNCHANGED <<idle_run, directory, excluded_dirs, excluded_exts,
                   included_exts>>

\* cfg after lines 150-153
Overridden ==
    Override(Override(cfg, "included_extensions", args.include),
             "excluded_extensions", args.exclude)

\* main, lines 150-156: the overrides of the command line, then a save
MainOverrides ==
    /\ pc = "asked"
    /\ pc' = "saved"
    /\ cfg' = Overridden
    /\ config_json' = SaveUnlessNoConfig(args, Disk, Overridden).json
    /\ config_io' = SaveUnlessNoConfig(args, Disk, Overridden).io
    /\ UNCHANGED <<idle_run, directory, excluded_dirs, excluded_exts,
                   included_exts>>

\* main, lines 159-161: the filters for the traversal; set() of a value
\* that cannot be iterated raises TypeError
MainFilters ==
    /\ pc = "saved"
    /\ IF SetOf(Get(cfg, "excluded_dirs", JList(<<>>))).raise
       THEN /\ pc' = "raised"
            /\ UNCHANGED <<excluded_dirs, excluded_exts, included_exts>>
       ELSE /\ pc' = "filtered"
            /\ excluded_dirs' = SetOf(Get(cfg, "excluded_dirs", JList(<<>>))).value
            /\ excluded_exts' = ExtensionsOf(cfg, "excluded_extensions")
            /\ included_exts' = ExtensionsOf(cfg, "included_extensions")
    /\ UNCHANGED <<idle_run, cfg, config_json, config_io, directory>>

\* cfg after line 184 for the directory d
Remembered(d) == Put(cfg, "default_directory", JStr(Abspath(d)))

\* lines 181-185 for the directory d: it is remembered when it is a
\* directory and the configuration is in use
Remember(d) ==
    IF ~args.no_config /\ Resolve(d) \in AllDirs
    THEN /\ cfg' = Remembered(d)
         /\ config_json' = SaveUnlessNoConfig(args, Disk, Remembered(d)).json
         /\ config_io' = SaveUnlessNoConfig(args, Disk, Remembered(d)).io
    ELSE UNCHANGED <<cfg, config_json, config_io>>

\* main, lines 164-185: the mode and the directory are chosen (--dir or
\* the directory the user types, which choose_directory checks), the
\* directory is remembered; the driver of the mode runs next
MainDirectory ==
    /\ pc = "filtered"
    /\ pc' = "idle"
    /\ directory' = IF args.dir # None THEN args.dir ELSE RootSub
    /\ Remember(IF args.dir # None THEN args.dir ELSE RootSub)
    /\ UNCHANGED <<idle_run, excluded_dirs, excluded_exts, included_exts>>

NextMain ==
    \/ MainLoad
    \/ MainEditConfig
    \/ MainAskEdit
    \/ MainOverrides
    \/ MainFilters
    \/ MainDirectory
    \/ Next

SpecMain == InitMain /\ [][NextMain]_vars

(***************************************************************************)
(* Runs over policies that name "(none)" and over excluded directory names *)
(* that are also the name of the root and of a regular file.               *)
(***************************************************************************)
\* (included_exts, excluded_exts) pairs that name the key of the
\* extensionless files; normalize_ext_list leaves "(none)" as it is
NonePolicies ==
    { <<{}, {}>>, <<{NoneKey}, {}>>, <<{}, {NoneKey}>>,
      <<{ExtPy, NoneKey}, {ExtPy}>> }

\* excluded names: n is the regular file /w/p/n, p the root, t the
\* directory /w/p/s/t
NamePolicies == { {}, {<<"n">>, <<"p">>, <<"t">>} }

InitEdge ==
    /\ files \in SUBSET {FileA, FileN, FileC, FileD}
    /\ unreadable = {}
    /\ directory \in {RootRel, RootAbs}
    /\ excluded_dirs \in NamePolicies
    /\ \E pol \in NonePolicies : included_exts = pol[1] /\ excluded_exts = pol[2]
    /\ mode = "none"
    /\ case_sensitive = FALSE
    /\ strings = <<>>
    /\ patterns = <<>>
    /\ pc = "idle"
    /\ stack = <<>>
    /\ yielded = <<>>
    /\ results = EmptyDict
    /\ per_file = EmptyDict
    /\ per_ext = EmptyDict
    /\ hits_by_pattern = EmptyDict
    /\ out = None
    /\ now = 0
    /\ reports = EmptyDict
    /\ run_no = 1
    /\ history = {}
    /\ op = "none"
    /\ arg = <<>>
    /\ ret = <<>>
    /\ args = NoArgs
    /\ cfg = EmptyDict
    /\ config_json = NoConfigFile
    /\ config_io = <<>>

SpecEdge == InitEdge /\ [][Next]_vars

(***************************************************************************)
(* Vocabulary of the properties.                                           *)
(***************************************************************************)
\* the real location of the directory argument
RootReal == Resolve(directory)

\* path f lies beneath directory d
Under(f, d) == StartsWith(f, d \o <<SEP>>)

\* the directories strictly between directory root and f
DirsBetween(root, f) == {d \in RealDirs : Under(d, root) /\ Under(f, d)}

\* the extension filter as the FilterPolicy states it
PassesExtFilter(f) ==
    LET ext == ExtOf(Basename(f))
    IN  /\ (included_exts = {} \/ ext \in included_exts)
        /\ ext \notin excluded_exts

\* the files under directory root with no excluded ancestor below it that
\* pass the extension filter
ExpectedUnder(root) ==
    IF root \notin RealDirs THEN {}
    ELSE {f \in Present :
            /\ Under(f, root)
            /\ \A d \in DirsBetween(root, f) : Basename(d) \notin excluded_dirs
            /\ PassesExtFilter(f)}

\* every directory from root down to f can be listed
Listable(root, f) ==
    \A d \in DirsBetween(root, f) \cup {root} : d \notin unreadable

\* the real locations of the paths yielded so far
YieldedSet == {Resolve(yielded[i]) : i \in 1..Len(yielded)}

\* no path was yielded twice
YieldedOnce ==
    \A i, j \in 1..Len(yielded) : yielded[i] = yielded[j] => i = j

\* the traversal of the run has ended
WalkOver == (pc = "iter" /\ stack = <<>>) \/ (pc = "done" /\ out # None)

\* the text a path reads as
TextOf(path) == UniversalNewlines(Decode(DiskContent(Resolve(path))))

\* needle occurs in hay
Occurs(hay, needle) ==
    \E i \in 1..(Len(hay) - Len(needle) + 1) :
        SubSeq(hay, i, i + Len(needle) - 1) = needle

\* number of positions of a sequence that hold x
Times(seq, x) == Cardinality({i \in 1..Len(seq) : seq[i] = x})

(***************************************************************************)
(* Properties of iter_files.                                               *)
(***************************************************************************)
\* C1: every path iter_files yields has an extension that is in
\* included_exts when that set is non-empty and that is not in
\* excluded_exts; an extension in both sets is therefore excluded.
C1_ExtensionFilter ==
    \A i \in 1..Len(yielded) :
        LET ext == ExtOf(Basename(yielded[i]))
        IN  /\ (included_exts # {} => ext \in included_exts)
            /\ ext \notin excluded_exts

\* a finished run that yielded files, over a fully visited tree that holds
\* a file whose extension is in both sets
C1_Witness ==
    /\ pc = "done"
    /\ yielded # <<>>
    /\ RootReal = ProjDir
    /\ excluded_dirs = {}
    /\ unreadable = {}
    /\ \E f \in files : ExtOf(Basename(f)) \in included_exts \cap excluded_exts

\* C2: no yielded file has, below the root, an ancestor directory whose base
\* name is in excluded_dirs.
C2_ExcludedDirPruned ==
    LET root == RootReal
    IN  \A i \in 1..Len(yielded) :
            \A d \in DirsBetween(root, Resolve(yielded[i])) :
                Basename(d) \notin excluded_dirs

\* a finished run whose tree has a readable file that passes the extension
\* filters two levels beneath an excluded directory
C2_Witness ==
    /\ pc = "done"
    /\ out # None
    /\ RootReal = ProjDir
    /\ unreadable = {}
    /\ <<"s">> \in excluded_dirs
    /\ FileD \in files
    /\ PassesExtFilter(FileD)
    /\ yielded # <<>>

\* C3 as stated: when the traversal has ended, the yielded paths are exactly
\* the files under the root with no excluded ancestor that pass the extension
\* filter, each once.
C3_ExactAsStated ==
    /\ YieldedOnce
    /\ WalkOver => YieldedSet = ExpectedUnder(RootReal)

\* C3: when the traversal has ended, the yielded paths are exactly the
\* files under the root with no excluded ancestor that pass the extension
\* filter and that are reached through directories the process can list,
\* each once; before the end only such files have been yielded.
C3_ExactAmongListable ==
    LET root == RootReal
        reached == {f \in ExpectedUnder(root) : Listable(root, f)}
        got == YieldedSet
    IN  /\ YieldedOnce
        /\ got \subseteq reached
        /\ WalkOver => got = reached

\* a finished traversal that yielded files from two different directories
\* while a third directory with an eligible file could not be listed
C3_Witness ==
    /\ WalkOver
    /\ \E f \in ExpectedUnder(RootReal) : ~Listable(RootReal, f)
    /\ \E i \in 1..Len(yielded) : Parent(Resolve(yielded[i])) = RootReal
    /\ \E i \in 1..Len(yielded) : Parent(Resolve(yielded[i])) # RootReal

(***************************************************************************)
(* Properties of the drivers.                                              *)
(***************************************************************************)
\* C4: the entry file, whatever path names it, is in no result structure of
\* a run: not a key of the String Search result, not a key of the per-file
\* statistics, not in the list of any pattern.
C4_SelfNeverInResults ==
    /\ \A p \in DOMAIN results : Resolve(p) # EntryFile
    /\ \A p \in DOMAIN per_file : Resolve(p) # EntryFile
    /\ \A q \in DOMAIN hits_by_pattern :
        \A i \in 1..Len(hits_by_pattern[q]) :
            Resolve(hits_by_pattern[q][i]) # EntryFile

\* the haystack and the needle as the case flag leaves them
Cased(s) == IF case_sensitive THEN s ELSE Lower(s)

\* C5: at every point of a String Search run the result holds no empty
\* per-file mapping, every key of a per-file mapping is one of the search
\* strings as given, every count is positive, and the string under which a
\* count is stored occurs in the file's text (case-adjusted per the flag).
C5_SearchResultInvariant ==
    mode = "search" =>
        \A p \in DOMAIN results :
            /\ DOMAIN results[p] # {}
            /\ \A s \in DOMAIN results[p] :
                /\ s \in Range(strings)
                /\ results[p][s] > 0
                /\ Occurs(Cased(TextOf(p)), Cased(s))

\* a finished case-insensitive run that kept a file under a mixed-case
\* search string and left a readable file without any occurrence out
C5_Witness ==
    /\ mode = "search"
    /\ pc = "done"
    /\ ~case_sensitive
    /\ \E p \in DOMAIN results :
        \E s \in DOMAIN results[p] : Lower(s) # s
    /\ \E i \in 1..Len(yielded) :
        /\ yielded[i] \notin DOMAIN results
        /\ ~IsSelf(yielded[i])
        /\ Resolve(yielded[i]) \notin unreadable

\* the sum of f over the set ps
RECURSIVE SumOver(_, _)
SumOver(ps, f) ==
    IF ps = {} THEN 0
    ELSE LET x == CHOOSE x \in ps : TRUE
         IN  f[x] + SumOver(ps \ {x}, f)

\* the bucket of a file: the extension of its base name, "(none)" without one
BucketKey(path) ==
    LET e == ExtOf(Basename(path))
    IN  IF e = <<>> THEN NoneKey ELSE e

\* C6: at every point of a File Statistics run the buckets are exactly the
\* extensions of the per-file entries, and each bucket's file count and
\* line, word and character totals are the number of, and the sums over,
\* the per-file entries of that extension.
C6_BucketsMatchPerFile ==
    mode = "stats" =>
        /\ DOMAIN per_ext = {BucketKey(p) : p \in DOMAIN per_file}
        /\ \A e \in DOMAIN per_ext :
            LET ps == {p \in DOMAIN per_file : BucketKey(p) = e}
            IN  /\ per_ext[e].files = Cardinality(ps)
                /\ per_ext[e].lines = SumOver(ps, [p \in ps |-> per_file[p].lines])
                /\ per_ext[e].words = SumOver(ps, [p \in ps |-> per_file[p].words])
                /\ per_ext[e].chars = SumOver(ps, [p \in ps |-> per_file[p].chars])

\* a finished run with two non-empty files in one bucket and another bucket
C6_Witness ==
    /\ mode = "stats"
    /\ pc = "done"
    /\ Cardinality(DOMAIN per_ext) >= 2
    /\ \E e \in DOMAIN per_ext :
        /\ per_ext[e].files = 2
        /\ \A p \in DOMAIN per_file : BucketKey(p) = e => per_file[p].chars > 0

\* the glob test of one name against one pattern under the case flag
NameMatches(name, pat) ==
    IF case_sensitive THEN Fnmatchcase(name, pat)
    ELSE Fnmatchcase(Lower(name), Lower(pat))

\* C7: during and after a Name Search run that has patterns, the keys of
\* the result are exactly the patterns as given, and a pattern that no
\* traversed file matches is mapped to the empty list.
C7_EveryPatternIsKey ==
    (mode = "names" /\ patterns # <<>>) =>
        /\ DOMAIN hits_by_pattern = Range(patterns)
        /\ \A q \in Range(patterns) :
            (\A i \in 1..Len(yielded) : ~NameMatches(Basename(yielded[i]), q))
                => (q \in DOMAIN hits_by_pattern /\ hits_by_pattern[q] = <<>>)

\* a finished case-insensitive run where an upper-case pattern has matches
\* and another pattern has none
C7_Witness ==
    /\ mode = "names"
    /\ pc = "done"
    /\ ~case_sensitive
    /\ \E q \in DOMAIN hits_by_pattern : Lower(q) # q /\ hits_by_pattern[q] # <<>>
    /\ \E q \in DOMAIN hits_by_pattern : hits_by_pattern[q] = <<>>

\* C8: for every yielded file other than the entry file and every pattern,
\* the path is in the pattern's list once when its base name matches the
\* pattern under the case flag, and not at all otherwise; the lists hold
\* yielded paths only.
C8_AllMatchesRecorded ==
    (mode = "names" /\ patterns # <<>>) =>
        \A q \in Range(patterns) :
            /\ Range(hits_by_pattern[q]) \subseteq Range(yielded)
            /\ \A i \in 1..Len(yielded) :
                Resolve(yielded[i]) # EntryFile =>
                    Times(hits_by_pattern[q], yielded[i]) =
                        IF NameMatches(Basename(yielded[i]), q) THEN 1 ELSE 0

\* a finished run where one file is listed under two patterns and a file
\* is listed under one pattern but not under another
C8_Witness ==
    /\ mode = "names"
    /\ pc = "done"
    /\ \E q1, q2 \in DOMAIN hits_by_pattern :
        /\ q1 # q2
        /\ Range(hits_by_pattern[q1]) \cap Range(hits_by_pattern[q2]) # {}
    /\ \E q1, q2 \in DOMAIN hits_by_pattern :
        Range(hits_by_pattern[q1]) \ Range(hits_by_pattern[q2]) # {}

\* C9: when the directory argument names nothing or names a file,
\* iter_files yields nothing and raises nothing, the run is at the point
\* where it writes its report (the guard of Finish holds), and no result
\* structure holds a file.
C9_BadRootYieldsNothing ==
    RootReal \notin RealDirs =>
        /\ yielded = <<>>
        /\ pc # "raised"
        /\ pc = "iter" => stack = <<>>
        /\ results = EmptyDict
        /\ per_file = EmptyDict
        /\ per_ext = EmptyDict
        /\ \A q \in DOMAIN hits_by_pattern : hits_by_pattern[q] = <<>>

\* a run over a root that is a file, finished with its report written
C9_Witness ==
    /\ directory = RootNotDir
    /\ mode = "names"
    /\ pc = "done"
    /\ out # None
    /\ DOMAIN hits_by_pattern # {}

\* C10, in every state: no exception has left the run, no unreadable file
\* is in the per-file results, the buckets count exactly the per-file
\* entries, and once the traversal has ended every yielded readable file
\* other than the program's own was processed.
C10_ReadFailureState ==
    /\ pc # "raised"
    /\ \A p \in DOMAIN results \cup DOMAIN per_file : Resolve(p) \notin unreadable
    /\ SumOver(DOMAIN per_ext, [e \in DOMAIN per_ext |-> per_ext[e].files])
          = Cardinality(DOMAIN per_file)
    /\ WalkOver =>
        \A i \in 1..Len(yielded) :
            (~IsSelf(yielded[i]) /\ Resolve(yielded[i]) \notin unreadable) =>
                /\ mode = "stats" => yielded[i] \in DOMAIN per_file
                /\ mode = "search" =>
                    (yielded[i] \in DOMAIN results <=>
                        \E k \in 1..Len(strings) :
                            Occurs(Cased(TextOf(yielded[i])), Cased(strings[k])))

\* C10, in every step of the loop: the entries recorded for other files are
\* kept as they are, and the step that meets an unreadable file changes no
\* result structure.
C10_ReadFailureStep ==
    (mode \in {"search", "stats"} /\ pc = "iter") =>
        /\ \A p \in DOMAIN results : p \in DOMAIN results' /\ results'[p] = results[p]
        /\ \A p \in DOMAIN per_file : p \in DOMAIN per_file' /\ per_file'[p] = per_file[p]
        /\ (/\ Len(yielded') = Len(yielded) + 1
            /\ Resolve(yielded'[Len(yielded')]) \in unreadable)
              => UNCHANGED <<results, per_file, per_ext>>

\* C10: in String Search and File Statistics a file whose read fails is
\* skipped without an exception leaving the run, it contributes nothing,
\* the remaining files are still processed and the entries of other files
\* are unchanged.
C10_ReadFailureSkipped ==
    [](mode \in {"search", "stats"} => C10_ReadFailureState)
        /\ [][C10_ReadFailureStep]_vars

\* a finished File Statistics run that met an unreadable file and recorded
\* a file yielded after it
C10_Witness ==
    /\ mode = "stats"
    /\ pc = "done"
    /\ \E i, j \in 1..Len(yielded) :
        /\ i < j
        /\ Resolve(yielded[i]) \in unreadable
        /\ yielded[j] \in DOMAIN per_file

(***************************************************************************)
(* Runs one after the other.                                               *)
(***************************************************************************)
\* C11: runs share no state: two finished runs with the same root,
\* FilterPolicy, mode and mode inputs, over a tree the user has not changed,
\* built equal result structures, whatever runs came in between and
\* whatever reports those runs wrote.
C11_RunsIndependent ==
    \A a, b \in history : a.inputs = b.inputs => a = b

(***************************************************************************)
(* Properties of the occurrence count.                                     *)
(***************************************************************************)
\* the positions where needle occurs in hay
OccurrencesOf(hay, needle) ==
    {i \in 1..(Len(hay) - Len(needle) + 1) :
        SubSeq(hay, i, i + Len(needle) - 1) = needle}

\* the occurrences a left-to-right scan takes: an occurrence is taken
\* exactly when no occurrence taken before it reaches into it
TakenLeftToRight(hay, needle) ==
    CHOOSE G \in SUBSET OccurrencesOf(hay, needle) :
        \A i \in OccurrencesOf(hay, needle) :
            i \in G <=> \A j \in G : j < i => j + Len(needle) <= i

\* the count String Search records for one string: absent means zero
Recorded(counts, s) == IF s \in DOMAIN counts THEN counts[s] ELSE 0

\* C12: for every text and every non-empty search string, the count String
\* Search records is the number of non-overlapping occurrences a
\* left-to-right scan finds, the two compared as they are when the search
\* is case-sensitive and both lower-cased otherwise; the count is stored
\* under the string as given and a zero count is not stored.
C12_CountIsNonOverlapping ==
    op = "count" =>
        /\ DOMAIN ret \subseteq {strings[1]}
        /\ \A s \in DOMAIN ret : ret[s] > 0
        /\ Recorded(ret, strings[1])
             = Cardinality(TakenLeftToRight(Cased(arg), Cased(strings[1])))

\* "aa" was counted in "aaaa": twice, though it occurs at three positions
C12_Witness ==
    /\ op = "count"
    /\ arg = <<"a","a","a","a">>
    /\ strings = << <<"a","a">> >>
    /\ Cardinality(OccurrencesOf(arg, strings[1])) = 3
    /\ ret = [s \in {<<"a","a">>} |-> 2]

\* str.swapcase() on one character
SwapChar(c) ==
    IF c = LongS THEN "S"
    ELSE IF \E i \in 1..26 : UpperChars[i] = c
         THEN LowerChars[CHOOSE i \in 1..26 : UpperChars[i] = c]
    ELSE IF \E i \in 1..26 : LowerChars[i] = c
         THEN UpperChars[CHOOSE i \in 1..26 : LowerChars[i] = c]
    ELSE c

\* the strings s turns into when the case of some of its letters is swapped
CaseSwaps(s) ==
    {[i \in 1..Len(s) |-> IF i \in P THEN SwapChar(s[i]) ELSE s[i]] :
        P \in SUBSET (1..Len(s))}

\* C13: without case sensitivity, the count String Search computes for a
\* text and a search string stays the same when the case of any letters of
\* the text or of the string is swapped.
C13_CaseSwapInvariant ==
    (op = "count" /\ ~case_sensitive) =>
        \A h \in CaseSwaps(arg), n \in CaseSwaps(strings[1]) :
            Recorded(SearchCounts(h, <<n>>, FALSE), n) = Recorded(ret, strings[1])

(***************************************************************************)
(* Properties of glob matching.                                            *)
(***************************************************************************)
\* one pattern element against the run of characters seg
ElementFits(e, seg) ==
    CASE e[1] = "lit" -> seg = <<e[2]>>
      [] e[1] = "star" -> TRUE
      [] e[1] = "any" -> Len(seg) = 1
      [] e[1] = "class" -> Len(seg) = 1 /\ seg[1] \in e[2]

\* the whole name splits into consecutive runs, one per pattern element,
\* each fitting its element
GlobFits(elems, name) ==
    \E cut \in [0..Len(elems) -> 0..Len(name)] :
        /\ cut[0] = 0
        /\ cut[Len(elems)] = Len(name)
        /\ \A k \in 1..Len(elems) :
            /\ cut[k-1] <= cut[k]
            /\ ElementFits(elems[k], SubSeq(name, cut[k-1] + 1, cut[k]))

\* a pattern element with its characters lower-cased
LowerElement(e) ==
    CASE e[1] = "lit" -> <<"lit", LowerChar(e[2])>>
      [] e[1] = "class" -> <<"class", {LowerChar(c) : c \in e[2]}>>
      [] OTHER -> e

\* the path is listed under the pattern of the study
Listed == ret[patterns[1]] = <<arg.path>>

\* C14: without case sensitivity a name is listed under a pattern exactly
\* when the lower-cased name fits the lower-cased pattern, with case
\* sensitivity exactly when the name fits the pattern as typed; either way
\* the result is keyed by the pattern as typed.  "*.txt" lists a.txt and
\* A.TXT without case sensitivity and only a.txt with it.
C14_GlobCaseHandling ==
    op = "match" =>
        /\ DOMAIN ret = {PatternText(arg.elems)}
        /\ ret[patterns[1]] \in {<<>>, <<arg.path>>}
        /\ ~case_sensitive =>
             (Listed <=> GlobFits([i \in DOMAIN arg.elems |-> LowerElement(arg.elems[i])],
                                  Lower(Basename(arg.path))))
        /\ case_sensitive =>
             (Listed <=> GlobFits(arg.elems, Basename(arg.path)))
        /\ arg \in GlobExamples =>
             (Listed <=> (~case_sensitive \/ Basename(arg.path) = <<"a",".","t","x","t">>))

\* A.TXT was tested against "*.txt" without case sensitivity and listed
\* under "*.txt" as typed
C14_Witness ==
    /\ op = "match"
    /\ ~case_sensitive
    /\ arg.path = <<"d","/","A",".","T","X","T">>
    /\ patterns = << <<"*",".","t","x","t">> >>
    /\ ret = [q \in {<<"*",".","t","x","t">>} |-> <<arg.path>>]

\* the elements of a pattern other than "*"
Fixed(elems) == {k \in DOMAIN elems : elems[k][1] # "star"}

\* C15: matching is anchored to the whole base name.  A listed name has
\* one character for each element other than "*" and, without a "*",
\* nothing more; a pattern of literal characters lists only the identical
\* name (up to case when the search is not case-sensitive), never a name
\* that merely contains it; a pattern of "?" lists exactly the names of its
\* length; a lone class lists exactly its one-character members; "*" alone
\* lists every name; and the directory part of the path plays no role.
C15_GlobAnchored ==
    op = "match" =>
        /\ Listed => Len(Basename(arg.path)) >= Cardinality(Fixed(arg.elems))
        /\ (Listed /\ Fixed(arg.elems) = DOMAIN arg.elems) =>
               Len(Basename(arg.path)) = Len(arg.elems)
        /\ (\A k \in DOMAIN arg.elems : arg.elems[k][1] = "lit") =>
               (Listed <=> Cased(Basename(arg.path)) = Cased(patterns[1]))
        /\ (\A k \in DOMAIN arg.elems : arg.elems[k][1] = "any") =>
               (Listed <=> Len(Basename(arg.path)) = Len(arg.elems))
        /\ (Len(arg.elems) = 1 /\ arg.elems[1][1] = "class") =>
               (Listed <=> /\ Len(Basename(arg.path)) = 1
                           /\ \E c \in arg.elems[1][2] :
                                Cased(<<c>>) = Cased(Basename(arg.path)))
        /\ (\A k \in DOMAIN arg.elems : arg.elems[k][1] = "star") => Listed
        /\ \A dir \in GlobDirs :
               Range(NameBody([q \in Range(patterns) |-> <<>>],
                              dir \o Basename(arg.path), patterns,
                              case_sensitive)[patterns[1]]) = {} <=> ~Listed

\* the name aB under directory aB/ was tested against the pattern "B": the
\* pattern occurs in the name and in the directory part, and the path is
\* not listed
C15_Witness ==
    /\ op = "match"
    /\ arg.path = <<"a","B","/","a","B">>
    /\ patterns = << <<"B">> >>
    /\ ret = [q \in {<<"B">>} |-> <<>>]

(***************************************************************************)
(* Properties of the Name Search report.                                   *)
(***************************************************************************)
\* a comes before b in lexicographic order of the characters' code points
LexBefore(a, b) ==
    \E k \in 1..(Len(b)) :
        /\ k <= Len(a) + 1
        /\ SubSeq(a, 1, k - 1) = SubSeq(b, 1, k - 1)
        /\ k = Len(a) + 1 \/ Ord(a[k]) < Ord(b[k])

\* the positions of a text where a line starts
LineStarts(text) ==
    IF text = <<>> THEN {}
    ELSE {1} \cup {i + 1 : i \in {j \in 1..(Len(text) - 1) : text[j] = "\n"}}

\* the line of a text that starts at position s, without its terminator
LineAt(text, s) ==
    SubSeq(text, s,
           (CHOOSE e \in s..Len(text) :
               text[e] = "\n" /\ \A j \in s..(e - 1) : text[j] # "\n") - 1)

PatternHeader == <<"P","a","t","t","e","r","n",":"," ">>

\* the starts of the lines "Pattern: ..." of a report
HeaderStarts(text) ==
    {h \in LineStarts(text) : StartsWith(LineAt(text, h), PatternHeader)}

\* the starts of the path lines a report lists under pattern p: the indented
\* lines whose nearest "Pattern:" line above is the one of p
PathStartsAmong(text, p, starts, headers) ==
    {s \in starts :
        /\ StartsWith(LineAt(text, s), <<" "," ">>)
        /\ LineAt(text, s) # <<" "," ","(","n","o"," ","m","a","t","c","h","e","s",")">>
        /\ \E h \in headers :
            /\ h < s
            /\ LineAt(text, h) = PatternHeader \o p
            /\ \A g \in headers : g < s => g <= h}

PathStarts(text, p) ==
    PathStartsAmong(text, p, LineStarts(text), HeaderStarts(text))

\* the path lines that start at the positions ps are the paths of the list
\* hits, each once, in lexicographic order
ListedInOrder(text, ps, hits) ==
    /\ {Drop(LineAt(text, s), 3) : s \in ps} = Range(hits)
    /\ Cardinality(ps) = Len(hits)
    /\ \A s, t \in ps :
           s < t => LexBefore(Drop(LineAt(text, s), 3), Drop(LineAt(text, t), 3))

\* a finished Name Search run with its report on disk
NamesReported ==
    mode = "names" /\ pc = "done" /\ out # None /\ out \in DOMAIN reports

\* C16 as stated: the paths of each pattern are in lexicographic order both
\* in hits_by_pattern, at every point of a Name Search run, and in the
\* written report.
C16_SortedEverywhere ==
    /\ mode = "names" =>
         \A p \in DOMAIN hits_by_pattern :
             \A i, j \in 1..Len(hits_by_pattern[p]) :
                 i < j => LexBefore(hits_by_pattern[p][i], hits_by_pattern[p][j])
    /\ NamesReported =>
         \A p \in Range(patterns) :
             \A s, t \in PathStarts(reports[out], p) :
                 s < t => LexBefore(Drop(LineAt(reports[out], s), 3),
                                    Drop(LineAt(reports[out], t), 3))

\* C16, amended: in the written report of every Name Search run the lines
\* under each pattern are the paths of hits_by_pattern for that pattern, in
\* lexicographic order whatever the order of discovery; hits_by_pattern
\* itself holds them in the order the traversal yielded them.
C16_ReportSorted ==
    /\ NamesReported =>
         \A p \in Range(patterns) :
             ListedInOrder(reports[out], PathStarts(reports[out], p),
                           hits_by_pattern[p])
    /\ mode = "names" =>
         \A p \in DOMAIN hits_by_pattern :
             hits_by_pattern[p] =
                 SelectSeq(yielded, LAMBDA q : q \in Range(hits_by_pattern[p]))

\* a report was written for a pattern whose paths were found out of order
C16_Witness ==
    /\ NamesReported
    /\ \E p \in Range(patterns) :
        /\ Len(hits_by_pattern[p]) = 2
        /\ LexBefore(hits_by_pattern[p][2], hits_by_pattern[p][1])
        /\ Cardinality(PathStarts(reports[out], p)) = 2

(***************************************************************************)
(* Properties of the file statistics.                                      *)
(***************************************************************************)
\* the positions of a text where a universal newline ends: "\n", or a "\r"
\* that no "\n" follows
NewlineEnds(text) ==
    {i \in 1..Len(text) :
        \/ text[i] = "\n"
        \/ text[i] = "\r" /\ ~(i < Len(text) /\ text[i + 1] = "\n")}

\* the number of line segments of a text split at universal newlines: one
\* per newline, and one more for a last line without terminator
UniversalLineCount(text) ==
    Cardinality(NewlineEnds(text))
    + (IF text # <<>> /\ Len(text) \notin NewlineEnds(text) THEN 1 ELSE 0)

\* C17: for every file content, lineCount is the number of line segments
\* of the decoded content split at universal newlines: "\n" and "\r\n"
\* each end one line, a last line without terminator counts, a trailing
\* newline adds no empty line.
C17_LineCount ==
    op = "stats" => ret.lines = UniversalLineCount(Decode(arg))

\* C18: for every file, charCount is the number of characters of the
\* file's decoded content, whitespace and line terminators included, a
\* "\r\n" terminator counting as two.
C18_CharCount ==
    op = "stats" => ret.chars = Len(Decode(arg))

(***************************************************************************)
(* Properties of extension normalisation.                                  *)
(***************************************************************************)
\* C19: every entry of the result of normalize_ext_list is non-empty,
\* lower-case, without a leading dot and without whitespace at either end;
\* no entry occurs twice and the entries are in ascending order.
C19_NormalizedEntries ==
    op = "normalize" =>
        /\ \A i \in 1..Len(ret) :
            /\ ret[i] # <<>>
            /\ ret[i] = Lower(ret[i])
            /\ Head(ret[i]) # "."
            /\ Head(ret[i]) \notin Whitespace
            /\ ret[i][Len(ret[i])] \notin Whitespace
        /\ \A i, j \in 1..Len(ret) : i < j => LexBefore(ret[i], ret[j])

\* C20: normalising the result of normalize_ext_list again gives the same
\* list.
C20_NormalizeIdempotent ==
    op = "normalize" => normalize_ext_list(ret) = ret

(***************************************************************************)
(* Properties of the input loaders.                                        *)
(***************************************************************************)
\* a loader was applied and came back with a value
Loaded == op \in {"load_search_strings", "load_name_patterns"} /\ ret.kind = "return"

\* the entries the batch file supplies: none when there is no file, when
\* the user declines it or when it is not UTF-8 text
SuppliedByBatch(inp) ==
    IF BatchUsed(inp) /\ BadByte \notin Range(inp.bytes)
    THEN BatchEntries(FileLines(UniversalNewlines(inp.bytes)))
    ELSE <<>>

\* the entries the user supplies by typing, asked after the batch file
SuppliedByHand(inp) ==
    IF ask_yes_no(inp.add, SuppliedByBatch(inp) = <<>>)
    THEN ManualEntries(inp.typed)
    ELSE <<>>

\* the supplied entries: those of the batch file, then the typed ones
Supplied(inp) == SuppliedByBatch(inp) \o SuppliedByHand(inp)

\* the first position of x in seq
FirstAt(seq, x) ==
    CHOOSE i \in 1..Len(seq) : seq[i] = x /\ \A j \in 1..(i-1) : seq[j] # x

\* C21: the list load_search_strings or load_name_patterns returns holds
\* exactly the supplied entries (batch-file entries, then typed entries),
\* each once, in the order of their first occurrence and spelled as
\* supplied, none of them empty; entries that differ only in case are all
\* kept, and a list is returned whenever an entry was supplied.
C21_LoadedList ==
    Loaded =>
        /\ Supplied(arg) # <<>> => ret.value # None
        /\ Range(ret.value) = Range(Supplied(arg))
        /\ <<>> \notin Range(ret.value)
        /\ \A i, j \in 1..Len(ret.value) :
            i < j => /\ ret.value[i] # ret.value[j]
                     /\ FirstAt(Supplied(arg), ret.value[i])
                            < FirstAt(Supplied(arg), ret.value[j])

\* both sources supplied entries, one entry was supplied twice and two
\* differ in case only
C21_Witness ==
    /\ Loaded
    /\ SuppliedByBatch(arg) # <<>>
    /\ SuppliedByHand(arg) # <<>>
    /\ Len(Supplied(arg)) > Len(ret.value)
    /\ {<<"a">>, <<"A">>} \subseteq Range(ret.value)

\* the lines of a batch file as they stand in it
RawLines(inp) == FileLines(UniversalNewlines(inp.bytes))

\* the entries a loader came back with: none when it raised
Contributed == IF ret.kind = "return" THEN Range(ret.value) ELSE {}

\* a loader was applied, the batch file was used and nothing was typed
BatchOnly ==
    /\ op \in {"load_search_strings", "load_name_patterns"}
    /\ BatchUsed(arg)
    /\ arg.add = <<"n">>

\* the loader named o applied to inp
LoaderOf(o, inp) ==
    IF o = "load_search_strings" THEN load_search_strings(inp)
    ELSE load_name_patterns(inp)

\* no batch file, and the given entries typed one per line
TypedOnly(entries) ==
    [exists |-> FALSE, bytes |-> <<>>, use |-> <<>>, add |-> <<"y">>,
     typed |-> entries]

C23_NoInputEndsCleanly ==
    (op \in {"load_search_strings", "load_name_patterns"} /\ Supplied(arg) = <<>>) =>
        /\ pc = "done"
        /\ out = None
        /\ stack = <<>>
        /\ yielded = <<>>
        /\ DOMAIN reports = {}

(***************************************************************************)
(* Termination.                                                            *)
(***************************************************************************)
\* C24: over every (finite, acyclic) tree of the model every run comes to
\* its end, and at its end iter_files has yielded finitely many paths, each
\* of them once: no file, read or failed, was visited again.
C24_RunTerminates ==
    <>(pc = "done" /\ stack = <<>> /\ YieldedOnce)

\* a run that ended after visiting two files, one of which could not be read
C24_Witness ==
    /\ pc = "done"
    /\ out # None
    /\ Len(yielded) >= 2
    /\ \E i \in 1..Len(yielded) : Resolve(yielded[i]) \in unreadable

(***************************************************************************)
(* Properties of main and of the configuration.                            *)
(***************************************************************************)
\* C25: when --no-config is given, main neither reads nor writes
\* config.json, on any path: --edit-config, an interactive edit, the
\* --include/--exclude overrides, remembering the directory.
C25_NoConfigTouchesNothing ==
    args.no_config => config_io = <<>>

\* a run with --no-config and --include that passed the question about
\* editing, the overrides and the choice of the directory, and ended
C25_Witness ==
    /\ args.no_config
    /\ args.include # None
    /\ ~args.edit_config
    /\ "included_extensions" \in DOMAIN cfg
    /\ directory = RootSub
    /\ pc = "done"

\* C27: the excluded directories main passes to the drivers are
\* merged_excluded_dirs(cfg), the configured names of a non-empty list and
\* the defaults otherwise, and no excluded_dirs value makes main fail.
C27_ExcludedDirsAreMerged ==
    /\ pc # "raised"
    /\ pc \in {"filtered", "idle", "iter", "done"} =>
        excluded_dirs = merged_excluded_dirs(cfg)

(***************************************************************************)
(* Properties of the filters at their edges.                               *)
(***************************************************************************)
\* the files of the tree no excluded directory hides from the walk
Visible ==
    {f \in Present :
        /\ Under(f, RootReal)
        /\ \A d \in DirsBetween(RootReal, f) : Basename(d) \notin excluded_dirs}

\* C26: the extension iter_files tests against included_exts and
\* excluded_exts is the bucket key of File Statistics, "(none)" for an
\* extensionless file: the files yielded are the visible files whose bucket
\* key passes the two tests.
C26_TraversalTestsBucketKey ==
    /\ \A i \in 1..Len(yielded) :
        ExtAllowed(StatsExt(yielded[i]), included_exts, excluded_exts)
    /\ WalkOver =>
        \A f \in Visible :
            ExtAllowed(StatsExt(f), included_exts, excluded_exts) => f \in YieldedSet

\* C29: excluded_dirs prunes subdirectories only: once the walk is over, a
\* visible file that passes the extension filter was yielded also when the
\* base name of the root is an excluded name and when the file's own name is.
C29_ExclusionOnlyOnSubdirs ==
    WalkOver =>
        \A f \in Visible :
            (/\ PassesExtFilter(f)
             /\ \/ Basename(RootReal) \in excluded_dirs
                \/ Basename(directory) \in excluded_dirs
                \/ Basename(f) \in excluded_dirs) => f \in YieldedSet

\* a finished run under a root named p with n, p and t excluded: the file
\* n was yielded, the file under the directory t was not
C29_Witness ==
    /\ pc = "done"
    /\ Basename(directory) \in excluded_dirs
    /\ FileN \in YieldedSet
    /\ Basename(FileN) \in excluded_dirs
    /\ FileA \in YieldedSet
    /\ FileD \in files
    /\ FileD \notin YieldedSet

(***************************************************************************)
(* Properties of the report files.                                         *)
(***************************************************************************)
\* C28: every run that writes a report writes it to a path of its own: the
\* path a run returns is not the path of a report that is already there, so
\* no report of an earlier run is overwritten.
C28_ReportPathOfItsOwn ==
    [][(out' # None /\ out' # out) => out' \notin DOMAIN reports]_vars

====
